---- MODULE Spec2Model ----
(***************************************************************************)
(* A model of optcheck (src/optcheck/optcheck.py): the checker that        *)
(* recovers a specification hidden in the immediates of IADD32I /          *)
(* LOP32I.XOR instructions of a SASS listing, clusters the specification   *)
(* items into chains, matches every chain against the real memory          *)
(* instructions in a bounded window, counts the fences in between and      *)
(* compares the counts with the targets derived from the test name.        *)
(*                                                                         *)
(* Strings.  TLC cannot take a string apart, so every piece of text the    *)
(* program parses is a member of a closed vocabulary whose lexical         *)
(* structure is given by the tables Lex (one cleaned instruction line) and *)
(* Opnd (one operand field).  The parsing code (startswith, split(","),    *)
(* int(.,16), the bit masks, lstrip/rstrip, the regular expressions) is    *)
(* modelled on that structure.  Positions are 0-based as in the program;   *)
(* the element at program index p of a TLA+ sequence s is s[p+1].          *)
(***************************************************************************)
EXTENDS Integers, Sequences, FiniteSets, TLC

(***************************************************************************)
(* Bounds of the model                                                     *)
(***************************************************************************)
\* Longest disassembly (raw lines) fed to the program.
MaxLen == 6
\* Longest test identifier, in tokens.
MaxName == 2

\* The length of the long listings.
PadLen == 52

(***************************************************************************)
(* Program constants                                                       *)
(***************************************************************************)
\* assert(n > 5): the smallest instruction count the program accepts.
MinInsts == 6
\* Window sizes of check().
w_top_sz == 40
w_bot_sz == 8
\* The tag in bits 16-31 of a specification immediate (0x7f3a).
SpecTag == 32570
\* Exit codes: normal end of the script, sys.exit(1) of bail_err (an uncaught
\* exception ends the interpreter with the same code), sys.exit(2).
EXIT_OK == 0
EXIT_ERR == 1
EXIT_FAIL == 2

sins == <<"IADD32I", "LOP32I.XOR">>

imap_pm ==
  << [ocl |-> <<"ST.E">>,                      lrp |-> 0, mai |-> 1],
     [ocl |-> <<"LD.E">>,                      lrp |-> 0, mai |-> 0],
     [ocl |-> <<"ST.E.CG", "ST.E.CG.S">>,      lrp |-> 0, mai |-> 1],
     [ocl |-> <<"LD.E.CG", "LD.E.CG.S">>,      lrp |-> 0, mai |-> 0],
     [ocl |-> <<"STS">>,                       lrp |-> 0, mai |-> 1],
     [ocl |-> <<"LDS">>,                       lrp |-> 0, mai |-> 0],
     [ocl |-> <<"ATOM.E.CAS">>,                lrp |-> 0, mai |-> 0],
     [ocl |-> <<"ATOM.E.EXCH", "ATOM.E.INC">>, lrp |-> 0, mai |-> 0],
     [ocl |-> <<"ST.E.WT">>,                   lrp |-> 0, mai |-> 1],
     [ocl |-> <<"LD.E.CV">>,                   lrp |-> 0, mai |-> 0] >>

\* Default is pre-maxwell.
imap == imap_pm

fl == <<"membar.cta", "membar.gl", "membar.sys">>

FenceNames == {fl[k] : k \in 1..Len(fl)}

\* source / target after the module-level loop (lines 80-82).
ZeroCounters == [f \in FenceNames |-> 0]

(***************************************************************************)
(* The vocabulary.                                                         *)
(***************************************************************************)
\* One cleaned instruction line: the execution predicates in front of the
\* opcode, the opcode token, and the operand fields between the commas
\* (stripped, the trailing ";" removed).
L(pre, op, ops) == [pre |-> pre, op |-> op, ops |-> ops]

Lex ==
     ("NOP;"                           :> L(<<>>, "NOP", <<>>))
  @@ ("MOV R1, c[0x0][0x20];"          :> L(<<>>, "MOV", <<"R1", "c[0x0][0x20]">>))
  \* specification items: tag 0x7f3a, type index, order index
  @@ ("IADD32I R0, R1, 0x7f3a0000;"    :> L(<<>>, "IADD32I", <<"R0", "R1", "0x7f3a0000">>))
  @@ ("IADD32I R0, R1, 0x7f3a0110;"    :> L(<<>>, "IADD32I", <<"R0", "R1", "0x7f3a0110">>))
  @@ ("IADD32I R0, R1, 0x7f3a0020;"    :> L(<<>>, "IADD32I", <<"R0", "R1", "0x7f3a0020">>))
  @@ ("IADD32I R0, R1, 0x7f3a0130;"    :> L(<<>>, "IADD32I", <<"R0", "R1", "0x7f3a0130">>))
  @@ ("LOP32I.XOR R0, R1, 0x7f3a0100;" :> L(<<>>, "LOP32I.XOR", <<"R0", "R1", "0x7f3a0100">>))
  @@ ("LOP32I.XOR R0, R2, 0x7f3a0100;" :> L(<<>>, "LOP32I.XOR", <<"R0", "R2", "0x7f3a0100">>))
  \* immediates that differ in the low bits, in the tag, in the register
  @@ ("IADD32I R0, R1, 0x7f3a0005;"    :> L(<<>>, "IADD32I", <<"R0", "R1", "0x7f3a0005">>))
  @@ ("LOP32I.XOR R0, R2, 0x7f3a011f;" :> L(<<>>, "LOP32I.XOR", <<"R0", "R2", "0x7f3a011f">>))
  @@ ("IADD32I R2, R0, 0x7f3a0000;"    :> L(<<>>, "IADD32I", <<"R2", "R0", "0x7f3a0000">>))
  @@ ("IADD32I R0, R1, 0x7f3a09f0;"    :> L(<<>>, "IADD32I", <<"R0", "R1", "0x7f3a09f0">>))
  @@ ("IADD32I R0, R1, 0x7f3b0000;"    :> L(<<>>, "IADD32I", <<"R0", "R1", "0x7f3b0000">>))
  @@ ("IADD32I R0, R1, 0x3f3a0000;"    :> L(<<>>, "IADD32I", <<"R0", "R1", "0x3f3a0000">>))
  @@ ("IADD32I R0, R1, 0x7f3a;"        :> L(<<>>, "IADD32I", <<"R0", "R1", "0x7f3a">>))
  \* a specification item whose type index (0x0a) is outside the map
  @@ ("IADD32I R0, R1, 0x7f3a0a00;"    :> L(<<>>, "IADD32I", <<"R0", "R1", "0x7f3a0a00">>))
  @@ ("IADD32I R0, R1, 0x7f3a0a10;"    :> L(<<>>, "IADD32I", <<"R0", "R1", "0x7f3a0a10">>))
  \* carrier opcodes that carry no specification
  @@ ("IADD32I R0, R1, 0x10;"          :> L(<<>>, "IADD32I", <<"R0", "R1", "0x10">>))
  @@ ("IADD32I R0, 0x7f3a0000;"        :> L(<<>>, "IADD32I", <<"R0", "0x7f3a0000">>))
  @@ ("IADD32I R0, R1, R2;"            :> L(<<>>, "IADD32I", <<"R0", "R1", "R2">>))
  @@ ("IADD32I R0, R1, R2, 0x7f3a0000;" :> L(<<>>, "IADD32I", <<"R0", "R1", "R2", "0x7f3a0000">>))
  @@ ("LOP32I.XOR R0, 0x10;"           :> L(<<>>, "LOP32I.XOR", <<"R0", "0x10">>))
  @@ ("IADD32I;"                       :> L(<<>>, "IADD32I", <<>>))
  \* the real accesses
  @@ ("ST.E [R1], R2;"                 :> L(<<>>, "ST.E", <<"[R1]", "R2">>))
  @@ ("LD.E R1, [R4];"                 :> L(<<>>, "LD.E", <<"R1", "[R4]">>))
  @@ ("@P0 LD.E R1, [R4];"             :> L(<<"@P0">>, "LD.E", <<"R1", "[R4]">>))
  \* the carriers of every type index of the map, orders 0 and 1
  @@ ("IADD32I R0, R1, 0x7f3a0010;"     :> L(<<>>, "IADD32I", <<"R0", "R1", "0x7f3a0010">>))
  @@ ("IADD32I R0, R1, 0x7f3a0100;"     :> L(<<>>, "IADD32I", <<"R0", "R1", "0x7f3a0100">>))
  @@ ("IADD32I R0, R1, 0x7f3a0200;"     :> L(<<>>, "IADD32I", <<"R0", "R1", "0x7f3a0200">>))
  @@ ("IADD32I R0, R1, 0x7f3a0210;"     :> L(<<>>, "IADD32I", <<"R0", "R1", "0x7f3a0210">>))
  @@ ("IADD32I R0, R1, 0x7f3a0300;"     :> L(<<>>, "IADD32I", <<"R0", "R1", "0x7f3a0300">>))
  @@ ("IADD32I R0, R1, 0x7f3a0310;"     :> L(<<>>, "IADD32I", <<"R0", "R1", "0x7f3a0310">>))
  @@ ("IADD32I R0, R1, 0x7f3a0400;"     :> L(<<>>, "IADD32I", <<"R0", "R1", "0x7f3a0400">>))
  @@ ("IADD32I R0, R1, 0x7f3a0410;"     :> L(<<>>, "IADD32I", <<"R0", "R1", "0x7f3a0410">>))
  @@ ("IADD32I R0, R1, 0x7f3a0500;"     :> L(<<>>, "IADD32I", <<"R0", "R1", "0x7f3a0500">>))
  @@ ("IADD32I R0, R1, 0x7f3a0510;"     :> L(<<>>, "IADD32I", <<"R0", "R1", "0x7f3a0510">>))
  @@ ("IADD32I R0, R1, 0x7f3a0600;"     :> L(<<>>, "IADD32I", <<"R0", "R1", "0x7f3a0600">>))
  @@ ("IADD32I R0, R1, 0x7f3a0610;"     :> L(<<>>, "IADD32I", <<"R0", "R1", "0x7f3a0610">>))
  @@ ("IADD32I R0, R1, 0x7f3a0700;"     :> L(<<>>, "IADD32I", <<"R0", "R1", "0x7f3a0700">>))
  @@ ("IADD32I R0, R1, 0x7f3a0710;"     :> L(<<>>, "IADD32I", <<"R0", "R1", "0x7f3a0710">>))
  @@ ("IADD32I R0, R1, 0x7f3a0800;"     :> L(<<>>, "IADD32I", <<"R0", "R1", "0x7f3a0800">>))
  @@ ("IADD32I R0, R1, 0x7f3a0810;"     :> L(<<>>, "IADD32I", <<"R0", "R1", "0x7f3a0810">>))
  @@ ("IADD32I R0, R1, 0x7f3a0900;"     :> L(<<>>, "IADD32I", <<"R0", "R1", "0x7f3a0900">>))
  @@ ("IADD32I R0, R1, 0x7f3a0910;"     :> L(<<>>, "IADD32I", <<"R0", "R1", "0x7f3a0910">>))
  \* the carriers of type index 0 and the orders from 3 to 15
  @@ ("IADD32I R0, R1, 0x7f3a0030;"     :> L(<<>>, "IADD32I", <<"R0", "R1", "0x7f3a0030">>))
  @@ ("IADD32I R0, R1, 0x7f3a0040;"     :> L(<<>>, "IADD32I", <<"R0", "R1", "0x7f3a0040">>))
  @@ ("IADD32I R0, R1, 0x7f3a0050;"     :> L(<<>>, "IADD32I", <<"R0", "R1", "0x7f3a0050">>))
  @@ ("IADD32I R0, R1, 0x7f3a0060;"     :> L(<<>>, "IADD32I", <<"R0", "R1", "0x7f3a0060">>))
  @@ ("IADD32I R0, R1, 0x7f3a0070;"     :> L(<<>>, "IADD32I", <<"R0", "R1", "0x7f3a0070">>))
  @@ ("IADD32I R0, R1, 0x7f3a0080;"     :> L(<<>>, "IADD32I", <<"R0", "R1", "0x7f3a0080">>))
  @@ ("IADD32I R0, R1, 0x7f3a0090;"     :> L(<<>>, "IADD32I", <<"R0", "R1", "0x7f3a0090">>))
  @@ ("IADD32I R0, R1, 0x7f3a00a0;"     :> L(<<>>, "IADD32I", <<"R0", "R1", "0x7f3a00a0">>))
  @@ ("IADD32I R0, R1, 0x7f3a00b0;"     :> L(<<>>, "IADD32I", <<"R0", "R1", "0x7f3a00b0">>))
  @@ ("IADD32I R0, R1, 0x7f3a00c0;"     :> L(<<>>, "IADD32I", <<"R0", "R1", "0x7f3a00c0">>))
  @@ ("IADD32I R0, R1, 0x7f3a00d0;"     :> L(<<>>, "IADD32I", <<"R0", "R1", "0x7f3a00d0">>))
  @@ ("IADD32I R0, R1, 0x7f3a00e0;"     :> L(<<>>, "IADD32I", <<"R0", "R1", "0x7f3a00e0">>))
  @@ ("IADD32I R0, R1, 0x7f3a00f0;"     :> L(<<>>, "IADD32I", <<"R0", "R1", "0x7f3a00f0">>))
  \* the accesses of every opcode of the map
  @@ ("ST.E.CG [R1], R2;"               :> L(<<>>, "ST.E.CG", <<"[R1]", "R2">>))
  @@ ("ST.E.CG.S [R1], R2;"             :> L(<<>>, "ST.E.CG.S", <<"[R1]", "R2">>))
  @@ ("LD.E.CG R1, [R4];"               :> L(<<>>, "LD.E.CG", <<"R1", "[R4]">>))
  @@ ("LD.E.CG.S R1, [R4];"             :> L(<<>>, "LD.E.CG.S", <<"R1", "[R4]">>))
  @@ ("STS [R1], R2;"                   :> L(<<>>, "STS", <<"[R1]", "R2">>))
  @@ ("LDS R1, [R4];"                   :> L(<<>>, "LDS", <<"R1", "[R4]">>))
  @@ ("ATOM.E.CAS R1, [R4], R0, R2;"    :> L(<<>>, "ATOM.E.CAS", <<"R1", "[R4]", "R0", "R2">>))
  @@ ("ATOM.E.EXCH R1, [R4], R2;"       :> L(<<>>, "ATOM.E.EXCH", <<"R1", "[R4]", "R2">>))
  @@ ("ATOM.E.INC R1, [R4], R2;"        :> L(<<>>, "ATOM.E.INC", <<"R1", "[R4]", "R2">>))
  @@ ("ST.E.WT [R1], R2;"               :> L(<<>>, "ST.E.WT", <<"[R1]", "R2">>))
  @@ ("LD.E.CV R1, [R4];"               :> L(<<>>, "LD.E.CV", <<"R1", "[R4]">>))
  \* a store whose address operand is a register without brackets, and one
  \* whose address is a register and an offset
  @@ ("ST.E R1, R2;"                    :> L(<<>>, "ST.E", <<"R1", "R2">>))
  @@ ("ST.E [R1+0x4], R2;"              :> L(<<>>, "ST.E", <<"[R1+0x4]", "R2">>))
  \* a load with a predicate behind the opcode, and one with two in front
  @@ ("LD.E @P0 R1, [R4];"              :> L(<<>>, "LD.E", <<"@P0 R1", "[R4]">>))
  @@ ("@P0 @P1 LD.E R1, [R4];"          :> L(<<"@P0", "@P1">>, "LD.E", <<"R1", "[R4]">>))
  \* fences
  @@ ("MEMBAR.CTA;"                    :> L(<<>>, "MEMBAR.CTA", <<>>))
  @@ ("MEMBAR.GL;"                     :> L(<<>>, "MEMBAR.GL", <<>>))
  @@ ("MEMBAR.SYS;"                    :> L(<<>>, "MEMBAR.SYS", <<>>))

\* One operand field: what is left after stripping the brackets (core),
\* whether that matches ^[rR][0-9]+$, and its hexadecimal digits when the
\* field is a literal int(., 16) accepts (<<>> when it raises ValueError).
O(core, isreg, hex) == [core |-> core, isreg |-> isreg, hex |-> hex]

Opnd ==
     ("R0"           :> O("R0", TRUE, <<>>))
  @@ ("R1"           :> O("R1", TRUE, <<>>))
  @@ ("R2"           :> O("R2", TRUE, <<>>))
  @@ ("[R1]"         :> O("R1", TRUE, <<>>))
  @@ ("[R4]"         :> O("R4", TRUE, <<>>))
  @@ ("[R1+0x4]"     :> O("R1+0x4", FALSE, <<>>))
  @@ ("@P0 R1"       :> O("@P0 R1", FALSE, <<>>))
  @@ ("c[0x0][0x20]" :> O("c[0x0][0x20", FALSE, <<>>))
  @@ ("0x10"         :> O("0x10", FALSE, <<1, 0>>))
  @@ ("0x7f3a0000"   :> O("0x7f3a0000", FALSE, <<7, 15, 3, 10, 0, 0, 0, 0>>))
  @@ ("0x7f3a0110"   :> O("0x7f3a0110", FALSE, <<7, 15, 3, 10, 0, 1, 1, 0>>))
  @@ ("0x7f3a0020"   :> O("0x7f3a0020", FALSE, <<7, 15, 3, 10, 0, 0, 2, 0>>))
  @@ ("0x7f3a0130"   :> O("0x7f3a0130", FALSE, <<7, 15, 3, 10, 0, 1, 3, 0>>))
  @@ ("0x7f3a0100"   :> O("0x7f3a0100", FALSE, <<7, 15, 3, 10, 0, 1, 0, 0>>))
  @@ ("0x7f3a0a00"   :> O("0x7f3a0a00", FALSE, <<7, 15, 3, 10, 0, 10, 0, 0>>))
  @@ ("0x7f3a0a10"   :> O("0x7f3a0a10", FALSE, <<7, 15, 3, 10, 0, 10, 1, 0>>))
  @@ ("0x7f3a0010"   :> O("0x7f3a0010", FALSE, <<7, 15, 3, 10, 0, 0, 1, 0>>))
  @@ ("0x7f3a0200"   :> O("0x7f3a0200", FALSE, <<7, 15, 3, 10, 0, 2, 0, 0>>))
  @@ ("0x7f3a0210"   :> O("0x7f3a0210", FALSE, <<7, 15, 3, 10, 0, 2, 1, 0>>))
  @@ ("0x7f3a0300"   :> O("0x7f3a0300", FALSE, <<7, 15, 3, 10, 0, 3, 0, 0>>))
  @@ ("0x7f3a0310"   :> O("0x7f3a0310", FALSE, <<7, 15, 3, 10, 0, 3, 1, 0>>))
  @@ ("0x7f3a0400"   :> O("0x7f3a0400", FALSE, <<7, 15, 3, 10, 0, 4, 0, 0>>))
  @@ ("0x7f3a0410"   :> O("0x7f3a0410", FALSE, <<7, 15, 3, 10, 0, 4, 1, 0>>))
  @@ ("0x7f3a0500"   :> O("0x7f3a0500", FALSE, <<7, 15, 3, 10, 0, 5, 0, 0>>))
  @@ ("0x7f3a0510"   :> O("0x7f3a0510", FALSE, <<7, 15, 3, 10, 0, 5, 1, 0>>))
  @@ ("0x7f3a0600"   :> O("0x7f3a0600", FALSE, <<7, 15, 3, 10, 0, 6, 0, 0>>))
  @@ ("0x7f3a0610"   :> O("0x7f3a0610", FALSE, <<7, 15, 3, 10, 0, 6, 1, 0>>))
  @@ ("0x7f3a0700"   :> O("0x7f3a0700", FALSE, <<7, 15, 3, 10, 0, 7, 0, 0>>))
  @@ ("0x7f3a0710"   :> O("0x7f3a0710", FALSE, <<7, 15, 3, 10, 0, 7, 1, 0>>))
  @@ ("0x7f3a0800"   :> O("0x7f3a0800", FALSE, <<7, 15, 3, 10, 0, 8, 0, 0>>))
  @@ ("0x7f3a0810"   :> O("0x7f3a0810", FALSE, <<7, 15, 3, 10, 0, 8, 1, 0>>))
  @@ ("0x7f3a0900"   :> O("0x7f3a0900", FALSE, <<7, 15, 3, 10, 0, 9, 0, 0>>))
  @@ ("0x7f3a0910"   :> O("0x7f3a0910", FALSE, <<7, 15, 3, 10, 0, 9, 1, 0>>))
  @@ ("0x7f3a0030"   :> O("0x7f3a0030", FALSE, <<7, 15, 3, 10, 0, 0, 3, 0>>))
  @@ ("0x7f3a0040"   :> O("0x7f3a0040", FALSE, <<7, 15, 3, 10, 0, 0, 4, 0>>))
  @@ ("0x7f3a0050"   :> O("0x7f3a0050", FALSE, <<7, 15, 3, 10, 0, 0, 5, 0>>))
  @@ ("0x7f3a0060"   :> O("0x7f3a0060", FALSE, <<7, 15, 3, 10, 0, 0, 6, 0>>))
  @@ ("0x7f3a0070"   :> O("0x7f3a0070", FALSE, <<7, 15, 3, 10, 0, 0, 7, 0>>))
  @@ ("0x7f3a0080"   :> O("0x7f3a0080", FALSE, <<7, 15, 3, 10, 0, 0, 8, 0>>))
  @@ ("0x7f3a0090"   :> O("0x7f3a0090", FALSE, <<7, 15, 3, 10, 0, 0, 9, 0>>))
  @@ ("0x7f3a00a0"   :> O("0x7f3a00a0", FALSE, <<7, 15, 3, 10, 0, 0, 10, 0>>))
  @@ ("0x7f3a00b0"   :> O("0x7f3a00b0", FALSE, <<7, 15, 3, 10, 0, 0, 11, 0>>))
  @@ ("0x7f3a00c0"   :> O("0x7f3a00c0", FALSE, <<7, 15, 3, 10, 0, 0, 12, 0>>))
  @@ ("0x7f3a00d0"   :> O("0x7f3a00d0", FALSE, <<7, 15, 3, 10, 0, 0, 13, 0>>))
  @@ ("0x7f3a00e0"   :> O("0x7f3a00e0", FALSE, <<7, 15, 3, 10, 0, 0, 14, 0>>))
  @@ ("0x7f3a00f0"   :> O("0x7f3a00f0", FALSE, <<7, 15, 3, 10, 0, 0, 15, 0>>))
  @@ ("0x7f3a0005"   :> O("0x7f3a0005", FALSE, <<7, 15, 3, 10, 0, 0, 0, 5>>))
  @@ ("0x7f3a011f"   :> O("0x7f3a011f", FALSE, <<7, 15, 3, 10, 0, 1, 1, 15>>))
  @@ ("0x7f3a09f0"   :> O("0x7f3a09f0", FALSE, <<7, 15, 3, 10, 0, 9, 15, 0>>))
  @@ ("0x7f3b0000"   :> O("0x7f3b0000", FALSE, <<7, 15, 3, 11, 0, 0, 0, 0>>))
  @@ ("0x3f3a0000"   :> O("0x3f3a0000", FALSE, <<3, 15, 3, 10, 0, 0, 0, 0>>))
  @@ ("0x7f3a"       :> O("0x7f3a", FALSE, <<7, 15, 3, 10>>))

\* s.startswith(p) for an opcode token s of the vocabulary: no opcode token
\* of the vocabulary is a proper extension of another one.
TokStartsWith(s, p) == s = p

\* f in s.lower() for an opcode token s of the vocabulary.
LowerContains(s, f) ==
  <<s, f>> \in { <<"MEMBAR.CTA", "membar.cta">>, <<"MEMBAR.GL", "membar.gl">>,
                 <<"MEMBAR.SYS", "membar.sys">> }

(***************************************************************************)
(* Decoding a specification item (lines 86-93, 207-257)                    *)
(***************************************************************************)
isspecn(num) == (num \div 65536) % 65536 = SpecTag

\* The largest order index: getordn keeps four bits (mask 0xf0, line 90).
MaxOrd == 15

\* getordn reading the lowest four bits.
getordnLow(num) == num % 16

getordn(num) == (num \div 16) % 16

gettypn(num) == (num \div 256) % 256

\* int(num, 16) on the digits of a literal, most significant first.
RECURSIVE HexVal(_, _)
HexVal(ds, acc) ==
  IF ds = <<>> THEN acc ELSE HexVal(Tail(ds), acc * 16 + Head(ds))

isspeccand(s) ==
  /\ Lex[s].pre = <<>>
  /\ \E k \in 1..Len(sins) : TokStartsWith(Lex[s].op, sins[k])

\* ins.split(","): the text after the opcode always yields at least one
\* (possibly empty) item.
NItems(ops) == IF ops = <<>> THEN 1 ELSE Len(ops)

\* split_add_inst: the pair of immediate and register; exc names the exception
\* that leaves the function when assert(len(items) == 3) fails or int(num, 16)
\* raises, and is "" otherwise.
\* SplitItems with a carrier of another shape taken for an instruction
\* without a tag.
SplitItemsLoose(ops) ==
  IF NItems(ops) # 3 THEN [exc |-> "", num |-> 0, reg |-> ""]
  ELSE IF Opnd[ops[3]].hex = <<>> THEN [exc |-> "ValueError", num |-> 0, reg |-> ""]
  ELSE [exc |-> "", num |-> HexVal(Opnd[ops[3]].hex, 0), reg |-> ops[2]]

SplitItems(ops) ==
  IF NItems(ops) # 3 THEN [exc |-> "AssertionError", num |-> 0, reg |-> ""]
  ELSE IF Opnd[ops[3]].hex = <<>> THEN [exc |-> "ValueError", num |-> 0, reg |-> ""]
  ELSE [exc |-> "", num |-> HexVal(Opnd[ops[3]].hex, 0), reg |-> ops[2]]

split_add_inst(ins) == SplitItems(Lex[ins].ops)

\* get_spec_item: kind "none" (returns None), "exc" (an exception leaves the
\* function) or "item" (the triple of type, order and register).
NoItem == [kind |-> "none", typ |-> 0, ord |-> 0, reg |-> "", exc |-> ""]

ExcItem(e) == [kind |-> "exc", typ |-> 0, ord |-> 0, reg |-> "", exc |-> e]

\* Lines 251-257, on the pair split_add_inst returned.
SpecOf(spec) ==
  IF spec.exc # "" THEN ExcItem(spec.exc)
  ELSE IF ~isspecn(spec.num) THEN NoItem
  ELSE [kind |-> "item", typ |-> gettypn(spec.num),
        ord |-> getordn(spec.num), reg |-> spec.reg, exc |-> ""]

get_spec_item(ins) ==
  IF ~isspeccand(ins) THEN NoItem ELSE SpecOf(split_add_inst(ins))

\* assert(0 <= typn < len(imap))
TypInMap(typn) == 0 <= typn /\ typn < Len(imap)

(***************************************************************************)
(* Matching one instruction (lines 349-418, 460)                           *)
(***************************************************************************)
\* The operand fields that hold a predicate token and white space, and what
\* is left of them without it.
PredIn == ("@P0 R1" :> "R1")

\* The first operand field from the k-th on that holds a predicate token,
\* 0 when none does.
RECURSIVE FirstPredIn(_, _)
FirstPredIn(ops, k) ==
  IF k > Len(ops) THEN 0
  ELSE IF ops[k] \in DOMAIN PredIn THEN k
  ELSE FirstPredIn(ops, k + 1)

\* Swallow with the pattern tied to the start of the line.
SwallowLeading(l) == IF l.pre = <<>> THEN l ELSE [l EXCEPT !.pre = Tail(l.pre)]

\* SwallowOps: the first predicate token among the operand fields removed.
SwallowOps(l, k) == IF k = 0 THEN l ELSE [l EXCEPT !.ops[k] = PredIn[@]]

\* re.sub(r'@[!a-zA-Z0-9]+\s+', '', ins, count=1): the first predicate token
\* of the line is removed, wherever it stands.
Swallow(l) ==
  IF l.pre = <<>> THEN SwallowOps(l, FirstPredIn(l.ops, 1))
  ELSE [l EXCEPT !.pre = Tail(l.pre)]

\* ins[0:len(oc)+1] == oc + " ": the line begins with the opcode and a space;
\* in the vocabulary a space follows the opcode exactly when operands do.
has_oc(l, oc) == l.pre = <<>> /\ l.op = oc /\ l.ops # <<>>

\* has_ocl with the first opcode of the list only.
has_oclFirst(l, ocl) == has_oc(l, ocl[1])

has_ocl(l, ocl) == \E k \in 1..Len(ocl) : has_oc(l, ocl[k])

\* split_mem_inst: the operand fields of a line that has one of the opcodes.
split_mem_inst(l, ocl) == IF l.ops = <<>> THEN <<"">> ELSE l.ops

\* get_mem_reg: the register of a memory operand, "" for None.
get_mem_reg(op) == IF Opnd[op].isreg THEN Opnd[op].core ELSE ""

\* HasFence with a fence of any category taken for one of category f.
HasFenceAny(ins, f) == \E g \in FenceNames : LowerContains(Lex[ins].op, g)

\* f in lis[j].lower()
HasFence(ins, f) == LowerContains(Lex[ins].op, f)

(***************************************************************************)
(* check (lines 421-487).  A chain is a sequence of tuples                 *)
(* <<position, type index, register>>.                                     *)
(***************************************************************************)
\* CheckScan with the instruction that matched one step looked at again for
\* the next.
RECURSIVE CheckScanStay(_, _, _, _, _, _)
CheckScanStay(spec, lines, i_, w_bot, next, first) ==
  IF i_ >= w_bot
  THEN [ret |-> FALSE, exc |-> "", first |-> first, last |-> i_]
  ELSE
    LET cur  == spec[next]
        e    == imap[cur[2] + 1]
        ins  == Swallow(Lex[lines[i_ + 1]])
        regs == split_mem_inst(ins, e.ocl)
        r0   == regs[e.lrp + 1]
        r    == IF e.mai = 1 THEN get_mem_reg(r0) ELSE r0
        f1   == IF next = 1 THEN i_ ELSE first
    IN IF ~has_ocl(ins, e.ocl)
         THEN CheckScanStay(spec, lines, i_ + 1, w_bot, next, first)
       ELSE IF e.mai = 1 /\ r = ""
         THEN CheckScanStay(spec, lines, i_ + 1, w_bot, next, first)
       ELSE IF r # cur[3]
         THEN CheckScanStay(spec, lines, i_ + 1, w_bot, next, first)
       ELSE IF next >= Len(spec)
         THEN [ret |-> TRUE, exc |-> "", first |-> f1, last |-> i_]
       ELSE IF ~TypInMap(spec[next + 1][2])
         THEN [ret |-> FALSE, exc |-> "IndexError", first |-> f1, last |-> i_]
       ELSE CheckScanStay(spec, lines, i_, w_bot, next + 1, f1)

\* The loop over the window from index i on, with `next` the index of the
\* next specification item and `first` the index of the first match.
\* exc names the exception that leaves the loop (imap[idx] of line 484 raises
\* IndexError), "" when none does.
RECURSIVE CheckScan(_, _, _, _, _, _)
CheckScan(spec, lines, i_, w_bot, next, first) ==
  IF i_ >= w_bot
  THEN [ret |-> FALSE, exc |-> "", first |-> first, last |-> i_]
  ELSE
    LET cur  == spec[next]
        e    == imap[cur[2] + 1]
        ins  == Swallow(Lex[lines[i_ + 1]])
        regs == split_mem_inst(ins, e.ocl)
        r0   == regs[e.lrp + 1]
        r    == IF e.mai = 1 THEN get_mem_reg(r0) ELSE r0
        f1   == IF next = 1 THEN i_ ELSE first
    IN IF ~has_ocl(ins, e.ocl)
         THEN CheckScan(spec, lines, i_ + 1, w_bot, next, first)
       ELSE IF e.mai = 1 /\ r = ""
         THEN CheckScan(spec, lines, i_ + 1, w_bot, next, first)
       ELSE IF r # cur[3]
         THEN CheckScan(spec, lines, i_ + 1, w_bot, next, first)
       ELSE IF next >= Len(spec)
         THEN [ret |-> TRUE, exc |-> "", first |-> f1, last |-> i_]
       ELSE IF ~TypInMap(spec[next + 1][2])
         THEN [ret |-> FALSE, exc |-> "IndexError", first |-> f1, last |-> i_]
       ELSE CheckScan(spec, lines, i_ + 1, w_bot, next + 1, f1)

\* CountFences with the fences from the head of the stream on.
CountFencesFromTop(lines, first, last, src) ==
  [f \in FenceNames |->
     src[f] + Cardinality({p \in 0..(last - 1) : HasFence(lines[p + 1], f)})]

\* The loop of lines 457-485 once more, for the indices at which it takes a
\* step of the chain as matched, in the order in which it takes them.
RECURSIVE ScanMatches(_, _, _, _, _, _)
ScanMatches(spec, lines, i_, w_bot, next, acc) ==
  IF i_ >= w_bot THEN acc
  ELSE
    LET cur  == spec[next]
        e    == imap[cur[2] + 1]
        ins  == Swallow(Lex[lines[i_ + 1]])
        regs == split_mem_inst(ins, e.ocl)
        r0   == regs[e.lrp + 1]
        r    == IF e.mai = 1 THEN get_mem_reg(r0) ELSE r0
    IN IF ~has_ocl(ins, e.ocl)
         THEN ScanMatches(spec, lines, i_ + 1, w_bot, next, acc)
       ELSE IF e.mai = 1 /\ r = ""
         THEN ScanMatches(spec, lines, i_ + 1, w_bot, next, acc)
       ELSE IF r # cur[3]
         THEN ScanMatches(spec, lines, i_ + 1, w_bot, next, acc)
       ELSE IF next >= Len(spec)
         THEN Append(acc, i_)
       ELSE ScanMatches(spec, lines, i_ + 1, w_bot, next + 1, Append(acc, i_))

\* CountFences with a category's counter raised to the chain's count, not by
\* it.
CountFencesMax(lines, first, last, src) ==
  [f \in FenceNames |->
     LET c == Cardinality({p \in (first + 1)..(last - 1) : HasFence(lines[p + 1], f)})
     IN IF c > src[f] THEN c ELSE src[f]]

\* for j in range(first+1, i): for f in fl: if f in ins: source[f] += 1
CountFences(lines, first, last, src) ==
  [f \in FenceNames |->
     src[f] + Cardinality({p \in (first + 1)..(last - 1) : HasFence(lines[p + 1], f)})]

\* Line 447: w_top = max(ln - w_top_sz, 0).
w_top(ln) == IF ln - w_top_sz > 0 THEN ln - w_top_sz ELSE 0

\* w_bot with the window open to the end of the stream.
w_botOpen(ln, ll) == ll

\* Line 448: w_bot = min(ln + w_bot_sz, ll).
w_bot(ln, ll) == IF ln + w_bot_sz < ll THEN ln + w_bot_sz ELSE ll

\* check with the fences counted whatever the result.
checkAlways(spec, lines, src) ==
  IF ~TypInMap(spec[1][2])
       THEN [ret |-> FALSE, exc |-> "AssertionError", source |-> src]
     ELSE LET res == CheckScan(spec, lines, w_top(spec[1][1]),
                               w_bot(spec[1][1], Len(lines)), 1, 0) IN
          [ret |-> res.ret, exc |-> res.exc,
           source |-> CountFences(lines, res.first, res.last, src)]

\* check(spec, lis): the result and the counters `source` after the call.
check(spec, lines, src) ==
  IF ~TypInMap(spec[1][2])
       THEN [ret |-> FALSE, exc |-> "AssertionError", source |-> src]
     ELSE LET res == CheckScan(spec, lines, w_top(spec[1][1]),
                               w_bot(spec[1][1], Len(lines)), 1, 0) IN
          [ret |-> res.ret, exc |-> res.exc,
           source |-> IF res.ret THEN CountFences(lines, res.first, res.last, src)
                      ELSE src]

(***************************************************************************)
(* cluster_specs (lines 260-338): the pure parts                           *)
(***************************************************************************)
\* sys.maxsize stands above every distance between two positions.
maxsize == 2147483647

Abs(x) == IF x < 0 THEN 0 - x ELSE x

\* ItemKind without the assertion on the type index (python -O).
ItemKindNoAssert(r, level, ge) ==
  IF r.kind = "exc" THEN "exc"
  ELSE IF r.kind = "none" THEN "skip"
  ELSE IF (IF ge THEN r.ord >= level ELSE r.ord = level) THEN "hit"
  ELSE "skip"

\* ItemKind with the orders from the level on taken by every loop.
ItemKindGe(r, level, ge) ==
  IF r.kind = "exc" THEN "exc"
  ELSE IF r.kind = "none" THEN "skip"
  ELSE IF ~TypInMap(r.typ) THEN "assert"
  ELSE IF r.ord >= level THEN "hit"
  ELSE "skip"

\* ItemKind with > for >= in the loop of line 328.
ItemKindGt(r, level, ge) ==
  IF r.kind = "exc" THEN "exc"
  ELSE IF r.kind = "none" THEN "skip"
  ELSE IF ~TypInMap(r.typ) THEN "assert"
  ELSE IF (IF ge THEN r.ord > level ELSE r.ord = level) THEN "hit"
  ELSE "skip"

\* What one iteration of a scanning loop does with the item r that
\* get_spec_item returned: "exc" (it raised), "assert" (the type index is
\* outside the map), "hit" (the order passes the loop's test: ordn = level in
\* the loops of lines 273 and 296, ordn >= level in the loop of line 328),
\* "skip" otherwise.
ItemKind(r, level, ge) ==
  IF r.kind = "exc" THEN "exc"
  ELSE IF r.kind = "none" THEN "skip"
  ELSE IF ~TypInMap(r.typ) THEN "assert"
  ELSE IF (IF ge THEN r.ord >= level ELSE r.ord = level) THEN "hit"
  ELSE "skip"

ScanKind(lines, p, level, ge) == ItemKind(get_spec_item(lines[p + 1]), level, ge)

\* The first position from `from` on where the loop does more than skip;
\* Len(lines) when it runs to the end.
RECURSIVE ScanStop(_, _, _, _)
ScanStop(lines, from, level, ge) ==
  IF from >= Len(lines) THEN Len(lines)
  ELSE IF ScanKind(lines, from, level, ge) # "skip" THEN from
  ELSE ScanStop(lines, from + 1, level, ge)

\* The exception that ends the run at an item that raised or failed the
\* assertion.
ItemExc(r) == IF r.kind = "exc" THEN r.exc ELSE "AssertionError"

ScanExc(lines, p) == ItemExc(get_spec_item(lines[p + 1]))

\* Entry with the position counted from 1.
EntryFromOne(p, r) == <<p + 1, r.typ, r.reg>>

\* The tuple (i, typn, regn) of lines 282 and 323.
Entry(p, r) == <<p, r.typ, r.reg>>

\* Lines 273-282: the chains seeded by the order-0 items from `from` on,
\* appended to acc; stopped: the position of the instruction that raised, or
\* Len(lines).
RECURSIVE SeedLoop(_, _, _)
\* SeedAt with the new chain put in front of the list.
SeedAtFront(lines, p, acc) ==
  IF p >= Len(lines) THEN [cl |-> acc, stopped |-> p]
  ELSE IF ScanKind(lines, p, 0, FALSE) # "hit" THEN [cl |-> acc, stopped |-> p]
  ELSE SeedLoop(lines, p + 1,
                <<<<Entry(p, get_spec_item(lines[p + 1]))>>>> \o acc)

SeedAt(lines, p, acc) ==
  IF p >= Len(lines) THEN [cl |-> acc, stopped |-> p]
  ELSE IF ScanKind(lines, p, 0, FALSE) # "hit" THEN [cl |-> acc, stopped |-> p]
  ELSE SeedLoop(lines, p + 1,
                Append(acc, <<Entry(p, get_spec_item(lines[p + 1]))>>))

SeedLoop(lines, from, acc) == SeedAt(lines, ScanStop(lines, from, 0, FALSE), acc)

\* Closest with <= for < in the comparison of the distances.
RECURSIVE ClosestLe(_, _, _, _, _, _)
ClosestLe(clusters, level, pos, k, m, cl_idx) ==
  IF k >= Len(clusters) THEN cl_idx
  ELSE LET item == clusters[k + 1] IN
       IF Len(item) # level THEN ClosestLe(clusters, level, pos, k + 1, m, cl_idx)
       ELSE LET d == Abs(item[level][1] - pos) IN
            IF d <= m THEN ClosestLe(clusters, level, pos, k + 1, d, k)
            ELSE ClosestLe(clusters, level, pos, k + 1, m, cl_idx)

\* Closest with the clusters that are longer than i taken too, by their item
\* of index i - 1.
RECURSIVE ClosestLonger(_, _, _, _, _, _)
ClosestLonger(clusters, level, pos, k, m, cl_idx) ==
  IF k >= Len(clusters) THEN cl_idx
  ELSE LET item == clusters[k + 1] IN
       IF Len(item) < level THEN ClosestLonger(clusters, level, pos, k + 1, m, cl_idx)
       ELSE LET d == Abs(item[level][1] - pos) IN
            IF d < m THEN ClosestLonger(clusters, level, pos, k + 1, d, k)
            ELSE ClosestLonger(clusters, level, pos, k + 1, m, cl_idx)

\* Closest over the clusters of every length, by their last items.
RECURSIVE ClosestAnyLen(_, _, _, _, _, _)
ClosestAnyLen(clusters, level, pos, k, m, cl_idx) ==
  IF k >= Len(clusters) THEN cl_idx
  ELSE LET item == clusters[k + 1]
           d    == Abs(item[Len(item)][1] - pos)
       IN IF d < m THEN ClosestAnyLen(clusters, level, pos, k + 1, d, k)
          ELSE ClosestAnyLen(clusters, level, pos, k + 1, m, cl_idx)

\* Lines 307-319: the index (0-based) of the closest cluster of length i for
\* the item at position j, scanning the clusters from k on; -1 when there is
\* none.
RECURSIVE Closest(_, _, _, _, _, _)
Closest(clusters, level, pos, k, m, cl_idx) ==
  IF k >= Len(clusters) THEN cl_idx
  ELSE LET item == clusters[k + 1] IN
       IF Len(item) # level THEN Closest(clusters, level, pos, k + 1, m, cl_idx)
       ELSE LET d == Abs(item[level][1] - pos) IN
            IF d < m THEN Closest(clusters, level, pos, k + 1, d, k)
            ELSE Closest(clusters, level, pos, k + 1, m, cl_idx)

(***************************************************************************)
(* The input: the disassembly and the test name                            *)
(***************************************************************************)
\* A line of cuobjdump output: the text up to the end of its leading
\* /*address*/ comment ("" when the line does not begin with white space and
\* a comment), and what re.sub("/\*[^*/]*\*/", "", .).strip() leaves of it.
RawInst(t) == [addr |-> "        /*0008*/", text |-> t]

RawHeader == [addr |-> "", text |-> "Function : kernel"]

RawCode == [addr |-> "        /* 0x2800440400005de4 */", text |-> ""]

\* isinst: '^\s+/\*.*[^0-9a-fxA-FX/\* ]'.  Every instruction text of the
\* vocabulary holds a character outside the class; a line of comments and
\* hexadecimal digits holds none.
isinst(l) == l.addr # "" /\ l.text # ""

\* list(filter(isinst, lis)) followed by the cleaning loop of lines 502-505.
RECURSIVE CleanLines(_)
CleanLines(raw) ==
  IF raw = <<>> THEN <<>>
  ELSE IF isinst(Head(raw)) THEN <<Head(raw).text>> \o CleanLines(Tail(raw))
  ELSE CleanLines(Tail(raw))

\* The test name (the path of the file read) is a sequence of tokens;
\* NameLower is str.lower() on them.
NameLower ==
     ("membar.cta" :> "membar.cta")
  @@ ("MEMBAR.GL"  :> "membar.gl")
  @@ ("membar.gl"  :> "membar.gl")
  @@ ("membar.sys" :> "membar.sys")
  @@ ("s"          :> "s")
  @@ ("sb-"        :> "sb-")

\* testname.count(f): no token but f itself holds f, and no f starts inside
\* one token and ends in the next.
CountName(name, f) == Cardinality({k \in 1..Len(name) : name[k] = f})

\* testname.count(f + 's'): an occurrence of f followed by a token that begins
\* with "s".
BeginsWithS(tok) == tok \in {"s", "sb-"}

CountNameS(name, f) ==
  Cardinality({k \in 1..(Len(name) - 1) : name[k] = f /\ BeginsWithS(name[k + 1])})

\* Line 558: testname.lower().
Lowered(name) == [k \in 1..Len(name) |-> NameLower[name[k]]]

\* Line 561: target[f] += 2 * c.
AddDouble(tgt, f, c) == [tgt EXCEPT ![f] = @ + 2 * c]

\* AddRest with half of all that the categories have so far taken off.
AddRestOfAll(tgt, f, c) ==
  [tgt EXCEPT ![f] = @ + (c - (tgt[fl[1]] + tgt[fl[2]] + tgt[fl[3]]) \div 2)]

\* Line 564: target[f] += (c - target[f] / 2), a true division of an even
\* number.
AddRest(tgt, f, c) == [tgt EXCEPT ![f] = @ + (c - tgt[f] \div 2)]

\* Lines 559-561: the first loop over the categories, from the k-th of
\* `order` on.
RECURSIVE FirstLoop(_, _, _, _)
FirstLoop(order, k, lower, tgt) ==
  IF k > Len(order) THEN tgt
  ELSE FirstLoop(order, k + 1, lower,
                 AddDouble(tgt, order[k], CountNameS(lower, order[k])))

\* Lines 562-564: the second loop.
RECURSIVE SecondLoop(_, _, _, _)
SecondLoop(order, k, lower, tgt) ==
  IF k > Len(order) THEN tgt
  ELSE SecondLoop(order, k + 1, lower,
                  AddRest(tgt, order[k], CountName(lower, order[k])))

\* Lines 558-564 with the categories taken in the order `order`.
TargetLoops(order, name, tgt) ==
  SecondLoop(order, 1, Lowered(name), FirstLoop(order, 1, Lowered(name), tgt))

\* ComputeTarget with the whole of the first sum taken off again.
ComputeTargetNoHalf(name, tgt) ==
  [f \in FenceNames |->
     tgt[f] + 2 * CountNameS(Lowered(name), f)
       + (CountName(Lowered(name), f) - (tgt[f] + 2 * CountNameS(Lowered(name), f)))]

\* Lines 558-564: the loops run over fl.
ComputeTarget(name, tgt) == TargetLoops(fl, name, tgt)

(***************************************************************************)
(* The inputs the model runs the program on                                *)
(***************************************************************************)
Last(q) == q[Len(q)]

SeqsOf(A, lo, hi) == UNION {[1..k -> A] : k \in lo..hi}

Range(f) == {f[x] : x \in DOMAIN f}

\* The sequences of length n over A in which no element occurs twice.
RECURSIVE Arrangements(_, _)
Arrangements(A, n) ==
  IF n = 0 THEN {<<>>}
  ELSE UNION {{Append(t, x) : x \in A \ Range(t)} : t \in Arrangements(A, n - 1)}

\* A listing in which every line is an instruction.
AsRaw(t) == [k \in 1..Len(t) |-> RawInst(t[k])]

\* Specification items of orders 0, 1 and 2 between other instructions, in
\* listings from one instruction too few on.
ClusterTexts ==
  { "NOP;", "IADD32I R0, R1, 0x7f3a0000;", "IADD32I R0, R1, 0x7f3a0110;",
    "IADD32I R0, R1, 0x7f3a0020;" }

ClusterInputs ==
  { [out |-> AsRaw(t), testname |-> <<"sb-">>] :
      t \in SeqsOf(ClusterTexts, MinInsts - 1, MaxLen) }

\* Specification items of orders 0, 1 and 3.
GapTexts ==
  { "IADD32I R0, R1, 0x7f3a0000;", "IADD32I R0, R1, 0x7f3a0110;",
    "IADD32I R0, R1, 0x7f3a0130;" }

GapInputs ==
  { [out |-> AsRaw(t), testname |-> <<"sb-">>] :
      t \in SeqsOf(GapTexts, MinInsts, MaxLen) }

\* One carrier instruction that is no well-formed specification item of the
\* map, at any place among order-0 items and other instructions.
OddTexts ==
  { "IADD32I R0, R1, 0x7f3a0a00;", "IADD32I R0, R1, 0x7f3a0a10;",
    "IADD32I R0, R1, 0x10;", "IADD32I R0, 0x7f3a0000;", "IADD32I R0, R1, R2;" }

OddAt(t) ==
  { [out |-> AsRaw([t EXCEPT ![k] = x]), testname |-> <<"sb-">>] :
      k \in 1..Len(t), x \in OddTexts }

OddInputs ==
  UNION { OddAt(t) :
      t \in SeqsOf({"NOP;", "IADD32I R0, R1, 0x7f3a0000;"}, MinInsts, MaxLen) }

\* One carrier with another immediate or register, at any place among
\* order-0 items and other instructions.
DecodeTexts ==
  { "IADD32I R0, R1, 0x7f3a0005;", "LOP32I.XOR R0, R2, 0x7f3a011f;",
    "IADD32I R2, R0, 0x7f3a0000;", "IADD32I R0, R1, 0x7f3a09f0;",
    "IADD32I R0, R1, 0x7f3b0000;", "IADD32I R0, R1, 0x3f3a0000;",
    "IADD32I R0, R1, 0x7f3a;" }

DecodeAt(t) ==
  { [out |-> AsRaw([t EXCEPT ![k] = x]), testname |-> <<"sb-">>] :
      k \in 1..Len(t), x \in DecodeTexts }

DecodeInputs ==
  UNION { DecodeAt(t) :
      t \in SeqsOf({"NOP;", "IADD32I R0, R1, 0x7f3a0000;"}, MinInsts, MinInsts) }

\* One carrier opcode with two, four or no operand fields, with and without
\* the tag, at any place among order-0 items and other instructions.
ShapeTexts ==
  { "IADD32I R0, 0x7f3a0000;", "IADD32I R0, R1, R2, 0x7f3a0000;",
    "LOP32I.XOR R0, 0x10;", "IADD32I;" }

ShapeAt(t) ==
  { [out |-> AsRaw([t EXCEPT ![k] = x]), testname |-> <<"sb-">>] :
      k \in 1..Len(t), x \in ShapeTexts }

ShapeInputs ==
  UNION { ShapeAt(t) :
      t \in SeqsOf({"NOP;", "IADD32I R0, R1, 0x7f3a0000;"}, MinInsts, MinInsts) }

\* A long listing: the item of order 0 at p, the item of order 1 at q, the
\* store at a, the load at b, NOP elsewhere.
Padded(n, p, q, a, b) ==
  [k \in 1..n |->
     IF k - 1 = p THEN "IADD32I R0, R1, 0x7f3a0000;"
     ELSE IF k - 1 = q THEN "IADD32I R0, R1, 0x7f3a0110;"
     ELSE IF k - 1 = a THEN "ST.E [R1], R2;"
     ELSE IF k - 1 = b THEN "LD.E R1, [R4];"
     ELSE "NOP;"]

\* The accesses at and next to the two ends of the window around p.
PaddedAround(n, p) ==
  { Padded(n, p, q, a, b) :
      q \in {p + 1, p + 3},
      a \in {p - w_top_sz - 1, p - w_top_sz, p - w_top_sz + 1, p + 2} \cap 0..(n - 1),
      b \in {p + w_bot_sz - 2, p + w_bot_sz - 1, p + w_bot_sz, p + w_bot_sz + 1}
             \cap 0..(n - 1) }

WindowInputs ==
  { [out |-> AsRaw(t), testname |-> <<"sb-">>] :
      t \in UNION { PaddedAround(PadLen, p) : p \in {1, 42, 45} } }

\* A chain of a store and a load, and behind its two items every sequence of
\* four accesses and fences of the three categories.
FenceTexts ==
  { "ST.E [R1], R2;", "LD.E R1, [R4];", "MEMBAR.CTA;", "MEMBAR.GL;", "MEMBAR.SYS;" }

FenceInputs ==
  { [out |-> AsRaw(<<"IADD32I R0, R1, 0x7f3a0000;", "IADD32I R0, R1, 0x7f3a0110;">> \o t),
     testname |-> <<"sb-">>] :
      t \in SeqsOf(FenceTexts, MinInsts - 2, MinInsts - 2) }

\* The carrier of type index t (0-9) and order 0, and the one of order 1.
Carrier0 ==
  << "IADD32I R0, R1, 0x7f3a0000;", "IADD32I R0, R1, 0x7f3a0100;",
     "IADD32I R0, R1, 0x7f3a0200;", "IADD32I R0, R1, 0x7f3a0300;",
     "IADD32I R0, R1, 0x7f3a0400;", "IADD32I R0, R1, 0x7f3a0500;",
     "IADD32I R0, R1, 0x7f3a0600;", "IADD32I R0, R1, 0x7f3a0700;",
     "IADD32I R0, R1, 0x7f3a0800;", "IADD32I R0, R1, 0x7f3a0900;" >>

Carrier1 ==
  << "IADD32I R0, R1, 0x7f3a0010;", "IADD32I R0, R1, 0x7f3a0110;",
     "IADD32I R0, R1, 0x7f3a0210;", "IADD32I R0, R1, 0x7f3a0310;",
     "IADD32I R0, R1, 0x7f3a0410;", "IADD32I R0, R1, 0x7f3a0510;",
     "IADD32I R0, R1, 0x7f3a0610;", "IADD32I R0, R1, 0x7f3a0710;",
     "IADD32I R0, R1, 0x7f3a0810;", "IADD32I R0, R1, 0x7f3a0910;" >>

\* The accesses to R1 that the opcodes of type index t (0-9) give.
RealOf ==
  << {"ST.E [R1], R2;"}, {"LD.E R1, [R4];"},
     {"ST.E.CG [R1], R2;", "ST.E.CG.S [R1], R2;"},
     {"LD.E.CG R1, [R4];", "LD.E.CG.S R1, [R4];"},
     {"STS [R1], R2;"}, {"LDS R1, [R4];"},
     {"ATOM.E.CAS R1, [R4], R0, R2;"},
     {"ATOM.E.EXCH R1, [R4], R2;", "ATOM.E.INC R1, [R4], R2;"},
     {"ST.E.WT [R1], R2;"}, {"LD.E.CV R1, [R4];"} >>

\* The two carriers of a chain of two steps, the two accesses behind them with
\* the instructions `between` between them, and `pad` at the end.
RoundTrips(between, pad) ==
  UNION { { <<Carrier0[t0], Carrier1[t1], a0>> \o between \o <<a1>> \o pad :
              a0 \in RealOf[t0], a1 \in RealOf[t1] } :
          t0 \in 1..Len(imap), t1 \in 1..Len(imap) }

\* The round trips as they are emitted, and filled up with two instructions.
RoundTripInputs ==
  { [out |-> AsRaw(t), testname |-> <<"sb-">>] :
      t \in RoundTrips(<<>>, <<>>) \cup RoundTrips(<<>>, <<"NOP;", "NOP;">>) }

\* The round trips with one fence between the two accesses.
InsertInputs ==
  { [out |-> AsRaw(t), testname |-> <<"sb-">>] :
      t \in UNION { RoundTrips(<<f>>, <<>>) \cup RoundTrips(<<f>>, <<"NOP;", "NOP;">>) :
                    f \in {"MEMBAR.CTA;", "MEMBAR.GL;", "MEMBAR.SYS;"} } }

\* Two chains of two steps each (a store, then a load or a store of another
\* opcode), and behind their four items every sequence of four accesses and
\* fences.
SharedTexts ==
  { "ST.E [R1], R2;", "LD.E R1, [R4];", "ST.E.CG [R1], R2;", "MEMBAR.CTA;",
    "MEMBAR.GL;" }

SharedSteps == {"IADD32I R0, R1, 0x7f3a0110;", "IADD32I R0, R1, 0x7f3a0210;"}

SharedInputs ==
  { [out |-> AsRaw(<<"IADD32I R0, R1, 0x7f3a0000;", "IADD32I R0, R1, 0x7f3a0000;",
                     x, y>> \o t),
     testname |-> <<"sb-">>] :
      x \in SharedSteps, y \in SharedSteps,
      t \in SeqsOf(SharedTexts, MinInsts - 2, MinInsts - 2) }

\* A chain of a store and a load, and behind its two items every sequence of
\* four instructions over the stores with the three forms of address, the
\* load and a fence.
BareTexts ==
  { "ST.E [R1], R2;", "ST.E R1, R2;", "ST.E [R1+0x4], R2;", "LD.E R1, [R4];",
    "MEMBAR.CTA;" }

BareInputs ==
  { [out |-> AsRaw(<<"IADD32I R0, R1, 0x7f3a0000;", "IADD32I R0, R1, 0x7f3a0110;">> \o t),
     testname |-> <<"sb-">>] :
      t \in SeqsOf(BareTexts, MinInsts - 2, MinInsts - 2) }

\* The same chain, and behind its items every sequence of four instructions
\* over the store, the load without a predicate, with one in front, with one
\* behind the opcode and with two in front, and a fence.
PredTexts ==
  { "ST.E [R1], R2;", "LD.E R1, [R4];", "@P0 LD.E R1, [R4];", "LD.E @P0 R1, [R4];",
    "@P0 @P1 LD.E R1, [R4];", "MEMBAR.CTA;" }

PredInputs ==
  { [out |-> AsRaw(<<"IADD32I R0, R1, 0x7f3a0000;", "IADD32I R0, R1, 0x7f3a0110;">> \o t),
     testname |-> <<"sb-">>] :
      t \in SeqsOf(PredTexts, MinInsts - 2, MinInsts - 2) }

\* A chain of three steps (a store, a load, a store), and behind its three
\* items every sequence of four accesses and fences.
TripleInputs ==
  { [out |-> AsRaw(<<"IADD32I R0, R1, 0x7f3a0000;", "IADD32I R0, R1, 0x7f3a0110;",
                     "IADD32I R0, R1, 0x7f3a0020;">> \o t),
     testname |-> <<"sb-">>] :
      t \in SeqsOf({"ST.E [R1], R2;", "LD.E R1, [R4];", "MEMBAR.CTA;"},
                   MinInsts - 2, MinInsts - 2) }

\* The carriers of type index 0 by their order, from 0 to 15.
ByOrder ==
  << "IADD32I R0, R1, 0x7f3a0000;",
     "IADD32I R0, R1, 0x7f3a0010;",
     "IADD32I R0, R1, 0x7f3a0020;",
     "IADD32I R0, R1, 0x7f3a0030;",
     "IADD32I R0, R1, 0x7f3a0040;",
     "IADD32I R0, R1, 0x7f3a0050;",
     "IADD32I R0, R1, 0x7f3a0060;",
     "IADD32I R0, R1, 0x7f3a0070;",
     "IADD32I R0, R1, 0x7f3a0080;",
     "IADD32I R0, R1, 0x7f3a0090;",
     "IADD32I R0, R1, 0x7f3a00a0;",
     "IADD32I R0, R1, 0x7f3a00b0;",
     "IADD32I R0, R1, 0x7f3a00c0;",
     "IADD32I R0, R1, 0x7f3a00d0;",
     "IADD32I R0, R1, 0x7f3a00e0;",
     "IADD32I R0, R1, 0x7f3a00f0;" >>

\* A chain of the most steps an order index can give, and the same items
\* with those of order 0 and of order 1 twice.
DeepInputs ==
  { [out |-> AsRaw(t), testname |-> <<"sb-">>] :
      t \in { ByOrder, <<ByOrder[1]>> \o ByOrder,
              <<ByOrder[1], ByOrder[2]>> \o ByOrder } }

\* Lines that are no instructions between the instructions.
RawInputs ==
  [ out : SeqsOf({RawHeader, RawCode, RawInst("IADD32I R0, R1, 0x7f3a0000;")},
                 MinInsts, MaxLen + 1),
    testname : {<<"sb-">>} ]

\* Three specifications (a store followed by a load of R1; a load of R1; a
\* load of R2), the accesses to R1 and a fence, each at most once and in
\* every order.  The name of the test asks for one membar.cta.
MatchTexts ==
  { "LOP32I.XOR R0, R1, 0x7f3a0100;", "LOP32I.XOR R0, R2, 0x7f3a0100;",
    "IADD32I R0, R1, 0x7f3a0000;", "IADD32I R0, R1, 0x7f3a0110;",
    "ST.E [R1], R2;", "LD.E R1, [R4];", "MEMBAR.CTA;" }

MatchInputs ==
  { [out |-> AsRaw(t), testname |-> <<"sb-", "membar.cta">>] :
      t \in UNION {Arrangements(MatchTexts, n) : n \in MinInsts..MaxLen} }

\* Every test name over the tokens, for three listings: the fence between
\* the two accesses, no fence, the load missing.
NameTokens == {"membar.cta", "MEMBAR.GL", "membar.sys", "s", "sb-"}

\* The name sb-membar.ctass, and a name with fences of two categories.
LongName == <<"sb-", "membar.cta", "s", "s">>

TwoFenceName == <<"membar.cta", "s", "MEMBAR.GL">>

TestNames == SeqsOf(NameTokens, 1, MaxName) \cup {LongName, TwoFenceName}

NamedListings ==
  { <<"IADD32I R0, R1, 0x7f3a0000;", "IADD32I R0, R1, 0x7f3a0110;",
      "ST.E [R1], R2;", "MEMBAR.CTA;", "LD.E R1, [R4];", "NOP;">>,
    <<"IADD32I R0, R1, 0x7f3a0000;", "IADD32I R0, R1, 0x7f3a0110;",
      "ST.E [R1], R2;", "MEMBAR.GL;", "@P0 LD.E R1, [R4];", "NOP;">>,
    <<"IADD32I R0, R1, 0x7f3a0000;", "IADD32I R0, R1, 0x7f3a0110;",
      "ST.E [R1], R2;", "MEMBAR.CTA;", "NOP;", "NOP;">> }

NameInputs ==
  { [out |-> AsRaw(t), testname |-> nm] :
      t \in NamedListings, nm \in TestNames }

Inputs ==
  ClusterInputs \cup GapInputs \cup OddInputs \cup RawInputs \cup MatchInputs
    \cup NameInputs \cup DecodeInputs \cup ShapeInputs \cup WindowInputs
    \cup FenceInputs \cup RoundTripInputs \cup InsertInputs \cup SharedInputs
    \cup BareInputs \cup PredInputs \cup TripleInputs \cup DeepInputs

(***************************************************************************)
(* The state of one run                                                    *)
(***************************************************************************)
VARIABLES
  out,        \* the cuobjdump output, a sequence of raw lines
  testname,   \* the name of the file read
  pc,         \* where the run is
  lis,        \* the cleaned instructions
  cl,         \* the clusters
  i,          \* cluster_specs: the order looked for
  j,          \* cluster_specs: the next position of the loop of line 296
  last_found, \* cluster_specs
  source,     \* fences counted
  target,     \* fences expected
  ok,         \* check_spec: the conjunction of the results so far
  ci,         \* check_spec: the index of the next cluster
  stdout,     \* the lines printed
  err,        \* the message on stderr ("" when none)
  status,     \* the exit code, -1 while the run is on
  run,        \* which run of the program on this input this is
  before      \* what the run before this one ended with, <<>> when none

vars == <<out, testname, pc, lis, cl, i, j, last_found, source, target, ok,
          ci, stdout, err, status, run, before>>

\* A printed line: "Cluster <num>: <text>", or <text> alone when num = -1.
PLine(text, num) == [text |-> text, num |-> num]

\* KeepCounters: the counters of the run before stay.
KeepCounters(old) == old

\* Lines 78-82: a process builds the two dictionaries anew, whatever a
\* process before it counted.
NewCounters(old) == ZeroCounters

Init ==
  /\ \E inp \in Inputs : out = inp.out /\ testname = inp.testname
  /\ run = 1
  /\ before = <<>>
  /\ pc = "main"
  /\ lis = <<>>
  /\ cl = <<>>
  /\ i = 0
  /\ j = 0
  /\ last_found = FALSE
  /\ source = ZeroCounters
  /\ target = ZeroCounters
  /\ ok = TRUE
  /\ ci = 0
  /\ stdout = <<>>
  /\ err = ""
  /\ status = -1

\* bail_err(s), or an exception nobody catches: the message, exit code 1.
Die(msg) ==
  /\ pc' = "exit"
  /\ err' = msg
  /\ status' = EXIT_ERR

(***************************************************************************)
(* The steps of a run                                                      *)
(***************************************************************************)
\* Lines 557-564: the targets.
Target ==
  /\ pc = "main"
  /\ target' = ComputeTarget(testname, target)
  /\ pc' = "check_spec"
  /\ UNCHANGED <<out, testname, run, before, lis, cl, i, j, last_found, source, ok, ci,
                 stdout, err, status>>

\* Enough with one instruction less asked for.
EnoughLess(n) == n > MinInsts - 2

\* Line 500: assert(n > 5).
Enough(n) == n > MinInsts - 1

\* check_spec, lines 497-505, and the assertion of line 270.
Clean ==
  /\ pc = "check_spec"
  /\ lis' = CleanLines(out)
  /\ IF Enough(Len(lis'))
       THEN /\ pc' = "seed"
            /\ UNCHANGED <<err, status>>
       ELSE Die("AssertionError")
  /\ UNCHANGED <<out, testname, run, before, cl, i, j, last_found, source, target, ok, ci,
                 stdout>>

\* cluster_specs, lines 272-292.
Seed ==
  /\ pc = "seed"
  /\ LET r == SeedLoop(lis, 0, <<>>) IN
     IF r.stopped < Len(lis)
       THEN /\ Die(ScanExc(lis, r.stopped))
            /\ UNCHANGED <<cl, i, j, last_found>>
     ELSE IF Len(r.cl) = 0
       THEN /\ Die("No specification found")
            /\ cl' = r.cl
            /\ UNCHANGED <<i, j, last_found>>
     ELSE /\ cl' = r.cl
          /\ i' = 1
          /\ j' = 0
          /\ last_found' = FALSE
          /\ pc' = "round"
          /\ UNCHANGED <<err, status>>
  /\ UNCHANGED <<out, testname, run, before, lis, source, target, ok, ci, stdout>>

\* Lines 296-324: the loop runs on to the next item of order i and puts it
\* into the closest cluster of length i.
ClusterItem ==
  /\ pc = "round"
  /\ LET p == ScanStop(lis, j, i, FALSE) IN
     /\ p < Len(lis)
     /\ IF ScanKind(lis, p, i, FALSE) # "hit"
          THEN /\ Die(ScanExc(lis, p))
               /\ UNCHANGED <<cl, j, last_found>>
        ELSE LET r == get_spec_item(lis[p + 1])
                 cl_idx == Closest(cl, i, p, 0, maxsize, -1)
             IN IF cl_idx = -1
                  THEN /\ Die("Missing item in order specification")
                       /\ last_found' = TRUE
                       /\ UNCHANGED <<cl, j>>
                ELSE /\ cl' = [cl EXCEPT ![cl_idx + 1] = Append(@, Entry(p, r))]
                     /\ last_found' = TRUE
                     /\ j' = p + 1
                     /\ UNCHANGED <<pc, err, status>>
  /\ UNCHANGED <<out, testname, run, before, lis, i, source, target, ok, ci, stdout>>

\* Lines 293-294 and 325: the loop of line 296 runs to its end; another round
\* follows when this one found an item.
RoundEnd ==
  /\ pc = "round"
  /\ ScanStop(lis, j, i, FALSE) >= Len(lis)
  /\ i' = i + 1
  /\ IF last_found
       THEN /\ last_found' = FALSE
            /\ j' = 0
            /\ UNCHANGED pc
       ELSE /\ pc' = "gap"
            /\ UNCHANGED <<last_found, j>>
  /\ UNCHANGED <<out, testname, run, before, lis, cl, source, target, ok, ci, stdout, err,
                 status>>

\* Lines 327-338, and 508-515 of check_spec.
Gap ==
  /\ pc = "gap"
  /\ LET p == ScanStop(lis, 0, i, TRUE) IN
     IF p < Len(lis)
       THEN /\ Die(IF ScanKind(lis, p, i, TRUE) = "hit"
                     THEN "Order gap in specification"
                     ELSE ScanExc(lis, p))
            /\ UNCHANGED <<ok, ci, stdout>>
     ELSE IF Len(cl) = 0
       THEN /\ Die("AssertionError")
            /\ UNCHANGED <<ok, ci, stdout>>
     ELSE /\ ok' = TRUE
          /\ ci' = 0
          /\ stdout' = stdout \o <<PLine("Specification clusters", Len(cl))>>
          /\ pc' = "check"
          /\ UNCHANGED <<err, status>>
  /\ UNCHANGED <<out, testname, run, before, lis, cl, i, j, last_found, source, target>>

\* Line 524: ok &= ret.
AndResult(acc, ret) == acc /\ ret

\* NextCluster with the loop left at the first cluster that fails.
NextClusterStop(k, ret, n) == IF ret THEN k + 1 ELSE n

\* Lines 517 and 523: the loop goes on to the next cluster whatever the
\* result of this one.
NextCluster(k, ret, n) == k + 1

\* CheckCluster with the matcher taking the steps off the chain it is given
\* as it matches them.
CheckClusterSpend ==
  /\ pc = "check"
  /\ ci < Len(cl)
  /\ LET r == check(cl[ci + 1], lis, source) IN
     IF r.exc # ""
       THEN /\ Die(r.exc)
            /\ UNCHANGED <<source, ok, ci, stdout, cl>>
     ELSE /\ source' = r.source
          /\ stdout' = Append(stdout, PLine(IF r.ret THEN "OK" ELSE "Failure", ci))
          /\ ci' = NextCluster(ci, r.ret, Len(cl))
          /\ ok' = AndResult(ok, r.ret)
          /\ cl' = [cl EXCEPT ![ci + 1] = IF r.ret THEN <<Last(@)>> ELSE @]
          /\ UNCHANGED <<pc, err, status>>
  /\ UNCHANGED <<out, testname, run, before, lis, i, j, last_found, target>>

\* Lines 517-524: one iteration of the loop over the clusters.
CheckCluster ==
  /\ pc = "check"
  /\ ci < Len(cl)
  /\ LET r == check(cl[ci + 1], lis, source) IN
     IF r.exc # ""
       THEN /\ Die(r.exc)
            /\ UNCHANGED <<source, ok, ci, stdout>>
     ELSE /\ source' = r.source
          /\ stdout' = Append(stdout, PLine(IF r.ret THEN "OK" ELSE "Failure", ci))
          /\ ci' = NextCluster(ci, r.ret, Len(cl))
          /\ ok' = AndResult(ok, r.ret)
          /\ UNCHANGED <<pc, err, status>>
  /\ UNCHANGED <<out, testname, run, before, lis, cl, i, j, last_found, target>>

\* Deficit with >= for >.
DeficitGe(tgt, src) == \E k \in 1..Len(fl) : tgt[fl[k]] >= src[fl[k]]

\* Lines 569-572: some target exceeds what was counted.
Deficit(tgt, src) == \E k \in 1..Len(fl) : tgt[fl[k]] > src[fl[k]]

\* Lines 574-578: the last line printed and the exit code.
VerdictLine(ret) == PLine(IF ret THEN "!!SUCCESS!!" ELSE "!!FAILURE!!", -1)

\* VerdictStatus with the exit code of bail_err for a failed verification.
VerdictStatusErr(ret) == IF ret THEN EXIT_OK ELSE EXIT_ERR

VerdictStatus(ret) == IF ret THEN EXIT_OK ELSE EXIT_FAIL

\* Line 526 and lines 566-578: the result of check_spec, the comparison of
\* the counters, the verdict.
Verdict ==
  /\ pc = "check"
  /\ ci >= Len(cl)
  /\ stdout' = Append(stdout, VerdictLine(ok /\ ~Deficit(target, source)))
  /\ status' = VerdictStatus(ok /\ ~Deficit(target, source))
  /\ pc' = "exit"
  /\ UNCHANGED <<out, testname, run, before, lis, cl, i, j, last_found, source, target, ok,
                 ci, err>>

Next ==
  \/ Target
  \/ Clean
  \/ Seed
  \/ ClusterItem
  \/ RoundEnd
  \/ Gap
  \/ CheckCluster
  \/ Verdict

Spec == Init /\ [][Next]_vars

(***************************************************************************)
(* The program run a second time on the same input                         *)
(***************************************************************************)
\* What a run ends with.
Outcome ==
  [status |-> status, err |-> err, stdout |-> stdout, cl |-> cl,
   source |-> source, target |-> target]

\* The inputs of the runs that are repeated.
RerunInputs ==
  NameInputs \cup FenceInputs \cup GapInputs \cup ShapeInputs \cup DecodeInputs
    \cup RoundTripInputs

InitRerun == Init /\ [out |-> out, testname |-> testname] \in RerunInputs

\* The program is started again on the same file: a new process, lines 15-25,
\* 72-82 and 530-555.
Restart ==
  /\ pc = "exit"
  /\ run = 1
  /\ run' = 2
  /\ before' = <<Outcome>>
  /\ pc' = "main"
  /\ lis' = <<>>
  /\ cl' = <<>>
  /\ i' = 0
  /\ j' = 0
  /\ last_found' = FALSE
  /\ source' = NewCounters(source)
  /\ target' = NewCounters(target)
  /\ ok' = TRUE
  /\ ci' = 0
  /\ stdout' = <<>>
  /\ err' = ""
  /\ status' = -1
  /\ UNCHANGED <<out, testname>>

NextRerun ==
  \/ Next
  \/ Restart

RerunSpec == InitRerun /\ [][NextRerun]_vars

(***************************************************************************)
(* Properties                                                              *)
(***************************************************************************)
\* The run has ended with a verdict.
HasVerdict == pc = "exit" /\ status # EXIT_ERR

\* The window matcher succeeds on cluster k (1-based).
Matched(k) == check(cl[k], lis, ZeroCounters).ret

\* The counters after the matcher has run once on each of the first n
\* clusters, in the order of their indices, from k on.
RECURSIVE CountedFrom(_, _, _)
CountedFrom(k, n, src) ==
  IF k > n THEN src ELSE CountedFrom(k + 1, n, check(cl[k], lis, src).source)

IsVerdictLine(l) == l.text \in {"!!SUCCESS!!", "!!FAILURE!!"}

IsResultLine(l) == l.text \in {"OK", "Failure"}

\* C1: a run that reaches a verdict ends in success exactly when the matcher
\* succeeds on every cluster and no fence category was counted less often
\* than its target asks for; otherwise it ends in failure.
C1_VerdictIff ==
  HasVerdict =>
    IF /\ \A k \in 1..Len(cl) : Matched(k)
       /\ \A f \in FenceNames : source[f] >= target[f]
    THEN status = EXIT_OK /\ Last(stdout) = PLine("!!SUCCESS!!", -1)
    ELSE status = EXIT_FAIL /\ Last(stdout) = PLine("!!FAILURE!!", -1)

\* A successful run of two clusters whose test name asks for a fence.
C1_Witness ==
  /\ pc = "exit"
  /\ status = EXIT_OK
  /\ Len(cl) >= 2
  /\ target["membar.cta"] >= 1

\* C2: a run has no exit code before it ends, and a run that has ended has
\* exit code 0 after the last line !!SUCCESS!!, 2 after the last line
\* !!FAILURE!!, or 1 with a message on stderr and no verdict; a cluster that
\* failed or a missed target gives 2, never 1, and a fatal error gives 1.
C2_Outcomes ==
  /\ (pc # "exit") = (status = -1)
  /\ pc = "exit" =>
       \/ /\ status = EXIT_OK
          /\ err = ""
          /\ Last(stdout) = PLine("!!SUCCESS!!", -1)
       \/ /\ status = EXIT_FAIL
          /\ err = ""
          /\ Last(stdout) = PLine("!!FAILURE!!", -1)
       \/ /\ status = EXIT_ERR
          /\ err # ""
          /\ \A k \in 1..Len(stdout) : ~IsVerdictLine(stdout[k])
  /\ (\E k \in 1..Len(stdout) : stdout[k].text = "Failure") => status # EXIT_ERR
  /\ (pc = "exit" /\ ci = Len(cl) /\ cl # <<>> /\ Deficit(target, source))
       => status = EXIT_FAIL
  /\ err # "" => status = EXIT_ERR

\* A run whose clusters all match ends with exit code 2 for a missed target.
C2_Witness ==
  /\ pc = "exit"
  /\ status = EXIT_FAIL
  /\ ok
  /\ target["membar.cta"] > source["membar.cta"]

\* C3: after a fatal error no cluster has a result, there is no verdict and
\* no fence has been counted.
C3_FatalEarly ==
  status = EXIT_ERR =>
    /\ \A k \in 1..Len(stdout) : ~IsResultLine(stdout[k]) /\ ~IsVerdictLine(stdout[k])
    /\ source = ZeroCounters
    /\ ci = 0

\* The last of the fatal errors: the gap found after the rounds.
C3_Witness ==
  /\ status = EXIT_ERR
  /\ err = "Order gap in specification"
  /\ \E k \in 1..Len(cl) : Len(cl[k]) >= 2

\* C4: while the clusters are checked and after the verdict, the lines printed
\* are one result per cluster handled, in the order of the indices from 0,
\* each the matcher's result for that cluster, followed by the verdict only
\* when every cluster has been handled; the counters are those of one call of
\* the matcher per cluster handled, whatever the earlier results.
C4_EveryCluster ==
  (pc = "check" \/ HasVerdict) =>
    /\ ci <= Len(cl)
    /\ HasVerdict => ci = Len(cl)
    /\ stdout =
         <<PLine("Specification clusters", Len(cl))>>
         \o [k \in 1..ci |-> PLine(IF Matched(k) THEN "OK" ELSE "Failure", k - 1)]
         \o (IF HasVerdict
               THEN <<PLine(IF status = EXIT_OK THEN "!!SUCCESS!!" ELSE "!!FAILURE!!", -1)>>
               ELSE <<>>)
    /\ source = CountedFrom(1, ci, ZeroCounters)

\* The first cluster fails, the second one matches and its fence is counted.
C4_Witness ==
  /\ HasVerdict
  /\ Len(cl) >= 2
  /\ ~Matched(1)
  /\ Matched(2)
  /\ source["membar.cta"] >= 1

(***************************************************************************)
(* Properties of the clustering                                            *)
(***************************************************************************)
\* The instruction stream of the run.
Stream == CleanLines(out)

Positions(lines) == 0..(Len(lines) - 1)

\* The instruction at position p of lines carries the marker tag.
IsItem(lines, p) == get_spec_item(lines[p + 1]).kind = "item"

\* It is a specification item of order o.
IsItemOf(lines, p, o) ==
  IsItem(lines, p) /\ get_spec_item(lines[p + 1]).ord = o

\* Every carrier instruction of lines decodes, and every item's type index
\* is inside the instruction map.
WellFormed(lines) ==
  \A p \in Positions(lines) :
    /\ get_spec_item(lines[p + 1]).kind # "exc"
    /\ IsItem(lines, p) => TypInMap(get_spec_item(lines[p + 1]).typ)

\* The tuple a chain holds for the item at position p.
TupleAt(lines, p) ==
  <<p, get_spec_item(lines[p + 1]).typ, get_spec_item(lines[p + 1]).reg>>

\* The distance of position p from the last item of chain k.
Dist(k, p) == Abs(cl[k][Len(cl[k])][1] - p)

\* The next item of order i that the round has not handled yet is at p.
NextItemAt(p) ==
  /\ p \in j..(Len(lis) - 1)
  /\ IsItemOf(lis, p, i)
  /\ \A q \in j..(p - 1) : ~IsItemOf(lis, q, i)

\* C5: a step of round i that changes the chains takes the first item of
\* order i not handled yet and appends it to a chain of length exactly i,
\* the one whose last position is nearest to the item, the one of smallest
\* index among the nearest; the round goes on behind that item.
C5_ClosestChain ==
  [][(pc = "round" /\ cl' # cl) =>
       \E p \in Positions(lis), k \in 1..Len(cl) :
         /\ NextItemAt(p)
         /\ j' = p + 1
         /\ i' = i
         /\ Len(cl[k]) = i
         /\ cl' = [cl EXCEPT ![k] = Append(@, TupleAt(lis, p))]
         /\ \A n \in 1..Len(cl) :
              Len(cl[n]) = i =>
                /\ Dist(k, p) <= Dist(n, p)
                /\ Dist(n, p) = Dist(k, p) => k <= n]_vars

\* Two chains were at the same distance from the item of order 1 and the one
\* of smaller index has it.
C5_Witness ==
  /\ pc = "round"
  /\ i = 1
  /\ \E k \in 1..Len(cl), n \in 1..Len(cl) :
       /\ k < n
       /\ Len(cl[k]) = 2
       /\ Len(cl[n]) = 1
       /\ Abs(cl[k][1][1] - cl[k][2][1]) = Abs(cl[n][1][1] - cl[k][2][1])

\* C6: at every moment of the run each chain is non-empty and its k-th
\* element (from 0) is the tuple of a specification item of order k.
C6_GapFree ==
  \A k \in 1..Len(cl) :
    /\ Len(cl[k]) >= 1
    /\ \A n \in 1..Len(cl[k]) :
         /\ cl[k][n][1] \in Positions(lis)
         /\ IsItemOf(lis, cl[k][n][1], n - 1)
         /\ cl[k][n] = TupleAt(lis, cl[k][n][1])

\* Clustering has returned a chain of three items next to a chain of one.
C6_Witness ==
  /\ pc = "check"
  /\ \E k \in 1..Len(cl) : Len(cl[k]) = 3
  /\ \E k \in 1..Len(cl) : Len(cl[k]) = 1

\* The positions of the items of order 0.
Ord0(lines) == {p \in Positions(lines) : IsItemOf(lines, p, 0)}

\* The stream has items of order 0 and no item of another order.
OnlyOrd0(lines) ==
  /\ Len(lines) >= MinInsts
  /\ Ord0(lines) # {}
  /\ \A p \in Positions(lines) : IsItem(lines, p) => IsItemOf(lines, p, 0)

\* Clustering has returned one chain of length 1 per item of order 0, by
\* increasing position.
Singletons ==
  /\ pc = "check" \/ HasVerdict
  /\ Len(cl) = Cardinality(Ord0(lis))
  /\ \A k \in 1..Len(cl) :
       /\ Len(cl[k]) = 1
       /\ cl[k][1][1] \in Ord0(lis)
       /\ cl[k][1] = TupleAt(lis, cl[k][1][1])
  /\ \A k \in 1..Len(cl), n \in 1..Len(cl) : k < n => cl[k][1][1] < cl[n][1][1]

\* The run is behind cluster_specs, or over.
Clustered == pc \in {"check", "exit"}

\* C7 as stated: a stream of at least 6 instructions with N >= 1 items of
\* order 0 and no item of a higher order yields N chains of length 1.
C7_AsStated == (Clustered /\ OnlyOrd0(Stream)) => Singletons

\* C7: a stream of at least 6 instructions with N >= 1 items of order 0 and
\* no item of a higher order, every carrier of which decodes with a type index
\* inside the map, yields N chains of length 1, one per item, by increasing
\* position.
C7_Singletons ==
  (Clustered /\ OnlyOrd0(Stream) /\ WellFormed(Stream)) => Singletons

\* Three items of order 0 have given three chains.
C7_Witness ==
  /\ pc = "check"
  /\ OnlyOrd0(Stream)
  /\ WellFormed(Stream)
  /\ Len(cl) = 3

\* C8: when the rounds have stopped at a level (the variable i is one above
\* it) there is no item of that level and no chain reaches it; if an item of
\* a higher order exists, the next step ends the run with the order-gap
\* error and nothing is printed about chains; when the chains are returned
\* every item of the stream is in one of them.
C8_GapDetected ==
  [][/\ pc = "gap" =>
          /\ \A p \in Positions(lis) : ~IsItemOf(lis, p, i - 1)
          /\ \A k \in 1..Len(cl) : Len(cl[k]) <= i - 1
     /\ (pc = "gap" /\ \E p \in Positions(lis) :
                         IsItem(lis, p) /\ get_spec_item(lis[p + 1]).ord > i - 1) =>
          /\ pc' = "exit"
          /\ status' = EXIT_ERR
          /\ err' = "Order gap in specification"
          /\ stdout' = <<>>
     /\ pc' = "check" =>
          \A p \in Positions(lis) :
            IsItem(lis, p) => \E k \in 1..Len(cl) : \E n \in 1..Len(cl[k]) :
                                cl[k][n][1] = p]_vars

\* Items of orders 0, 1 and 3 and none of order 2: the run ended with the
\* order-gap error.
C8_Witness ==
  /\ pc = "exit"
  /\ err = "Order gap in specification"
  /\ i = 3
  /\ \E p \in Positions(lis) : IsItemOf(lis, p, 3)
  /\ \E p \in Positions(lis) : IsItemOf(lis, p, 1)

\* The run has ended with "No specification found" before any round.
NoSpecFound ==
  /\ pc = "exit"
  /\ status = EXIT_ERR
  /\ err = "No specification found"
  /\ i = 0
  /\ cl = <<>>
  /\ stdout = <<>>

\* C9 as stated: a stream without an item of order 0 ends the run with
\* "No specification found".
C9_AsStated == (pc = "exit" /\ Ord0(Stream) = {}) => NoSpecFound

\* C9: a stream of at least 6 instructions without an item of order 0, every
\* carrier of which decodes with a type index inside the map, ends the run
\* with "No specification found" before any round and before the gap check.
C9_NoSpecification ==
  (/\ pc \notin {"main", "check_spec", "seed"}
   /\ Len(Stream) >= MinInsts
   /\ WellFormed(Stream)
   /\ Ord0(Stream) = {}) => NoSpecFound

\* A stream whose only items have orders 1 and 2 gave the error.
C9_Witness ==
  /\ NoSpecFound
  /\ \E p \in Positions(Stream) : IsItemOf(Stream, p, 1)
  /\ \E p \in Positions(Stream) : IsItemOf(Stream, p, 2)

\* C10: when round i comes to an item of order i and no chain has length i,
\* the next step ends the run with "Missing item in order specification" and
\* leaves the chains as they are; a round ends only when no item of order i
\* is left behind the last one handled; a step that changes a chain appends
\* to a chain of length i.
C10_MissingItem ==
  [][/\ (/\ pc = "round"
         /\ \E p \in Positions(lis) : NextItemAt(p)
         /\ \A k \in 1..Len(cl) : Len(cl[k]) # i) =>
          /\ pc' = "exit"
          /\ status' = EXIT_ERR
          /\ err' = "Missing item in order specification"
          /\ cl' = cl
     /\ (pc = "round" /\ i' # i) => \A p \in Positions(lis) : ~NextItemAt(p)
     /\ (pc = "round" /\ cl' # cl) =>
          \E k \in 1..Len(cl) :
            /\ Len(cl[k]) = i
            /\ Len(cl'[k]) = i + 1
            /\ IsItemOf(lis, cl'[k][i + 1][1], i)
            /\ cl' = [cl EXCEPT ![k] = Append(@, cl'[k][i + 1])]]_vars

\* Two items of order 1 for one chain: the second one ended the run.
C10_Witness ==
  /\ pc = "exit"
  /\ err = "Missing item in order specification"
  /\ i = 1
  /\ Len(cl) = 1
  /\ Len(cl[1]) = 2

(***************************************************************************)
(* Properties of the decoder                                               *)
(***************************************************************************)
\* The stream holds an item whose type index is outside the instruction map.
HasTypeOutside(lines) ==
  \E p \in Positions(lines) :
    IsItem(lines, p) /\ ~TypInMap(get_spec_item(lines[p + 1]).typ)

\* C11: a stream with a tagged item whose type index is outside the map never
\* gets to a clustering round, to the gap check or to the matcher, and its run
\* ends with exit code 1, whatever the order of the item; every tuple of
\* every chain has a type index inside the map.
C11_TypeInRange ==
  /\ HasTypeOutside(Stream) =>
       /\ pc \in {"main", "check_spec", "seed", "exit"}
       /\ pc = "exit" => status = EXIT_ERR /\ err = "AssertionError"
       /\ stdout = <<>>
  /\ \A k \in 1..Len(cl) : \A n \in 1..Len(cl[k]) : TypInMap(cl[k][n][2])

\* An item of order 1 with type index 10 behind an item of order 0 has ended
\* the run.
C11_Witness ==
  /\ pc = "exit"
  /\ status = EXIT_ERR
  /\ Ord0(Stream) # {}
  /\ \E p \in Positions(Stream) :
       /\ IsItemOf(Stream, p, 1)
       /\ ~TypInMap(get_spec_item(Stream[p + 1]).typ)
       /\ \E q \in 0..(p - 1) : IsItemOf(Stream, q, 0)

\* n shifted right by k bits.
RECURSIVE Shift(_, _)
Shift(n, k) == IF k = 0 THEN n ELSE Shift(n \div 2, k - 1)

\* The number that the lowest w bits of n spell.
RECURSIVE LowBits(_, _)
LowBits(n, w) == IF w = 0 THEN 0 ELSE (n % 2) + 2 * LowBits(n \div 2, w - 1)

\* The number that bits lo..hi of n spell, bit lo the lowest.
Field(n, lo, hi) == LowBits(Shift(n, lo), hi - lo + 1)

\* A carrier instruction with three operand fields, the third a hexadecimal
\* literal.
IsCarrier(ins) ==
  /\ isspeccand(ins)
  /\ Len(Lex[ins].ops) = 3
  /\ Opnd[Lex[ins].ops[3]].hex # <<>>

Immediate(ins) == HexVal(Opnd[Lex[ins].ops[3]].hex, 0)

\* What bits 16-31, 8-15 and 4-7 of the immediate n and the second operand
\* field reg say, against the item the decoder returned.
DecodedAs(item, n, reg) ==
  IF Field(n, 16, 31) = 32570
  THEN /\ item.kind = "item"
       /\ item.typ = Field(n, 8, 15)
       /\ item.ord = Field(n, 4, 7)
       /\ item.reg = reg
  ELSE item.kind = "none"

DecodedByBits(ins) ==
  DecodedAs(get_spec_item(ins), Immediate(ins), Lex[ins].ops[2])

\* The tuple e at place n of a chain, against the bits of the immediate imm
\* of the carrier ins it was made from.
TupleByBits(e, n, ins, imm) ==
  /\ Field(imm, 16, 31) = 32570
  /\ Field(imm, 4, 7) = n - 1
  /\ e[2] = Field(imm, 8, 15)
  /\ e[3] = Lex[ins].ops[2]

\* C12: every well-formed carrier of the stream is a specification item
\* exactly when bits 16-31 of its immediate are 0x7F3A; then its type index is
\* bits 8-15, its order bits 4-7 and its register the second operand field,
\* otherwise it gives no item and no error; the tuples of the chains carry the
\* same type index and register, at the place its order gives.
C12_BitFields ==
  /\ \A p \in Positions(lis) : IsCarrier(lis[p + 1]) => DecodedByBits(lis[p + 1])
  /\ \A k \in 1..Len(cl) : \A n \in 1..Len(cl[k]) :
       /\ IsCarrier(lis[cl[k][n][1] + 1])
       /\ TupleByBits(cl[k][n], n, lis[cl[k][n][1] + 1],
                      Immediate(lis[cl[k][n][1] + 1]))

\* The immediate 0x7f3a0005 has seeded a chain, and a carrier whose tag is
\* off by one bit stands in another run's stream: here the first.
C12_Witness ==
  /\ pc = "check"
  /\ \E k \in 1..Len(cl) :
       /\ lis[cl[k][1][1] + 1] = "IADD32I R0, R1, 0x7f3a0005;"
       /\ cl[k][1][2] = 0
       /\ cl[k][1][3] = "R1"

\* The instruction begins with a carrier opcode and the rest of it does not
\* split into three fields.
BadShape(ins) == isspeccand(ins) /\ Len(Lex[ins].ops) # 3

HasBadShape(lines) == \E p \in Positions(lines) : BadShape(lines[p + 1])

\* C13: a stream holding a carrier opcode whose operands are not three
\* fields never gets to a clustering round, to the gap check or to the
\* matcher: its run ends with exit code 1 by the decoder's assertion, no chain
\* made and nothing printed, with the tag in the immediate or without it.
C13_ShapeFatal ==
  HasBadShape(lis) =>
    /\ pc \in {"seed", "exit"}
    /\ pc = "exit" => status = EXIT_ERR /\ err = "AssertionError"
    /\ cl = <<>>
    /\ stdout = <<>>

\* A carrier of two fields without the tag, behind an item of order 0, has
\* ended the run.
C13_Witness ==
  /\ pc = "exit"
  /\ err = "AssertionError"
  /\ \E p \in Positions(lis) :
       /\ lis[p + 1] = "LOP32I.XOR R0, 0x10;"
       /\ \E q \in 0..(p - 1) : IsItemOf(lis, q, 0)

(***************************************************************************)
(* Properties of the window matcher                                        *)
(***************************************************************************)
\* The instruction ins, its predicate taken off, is an access of the kind the
\* chain tuple e asks for, on the tuple's register.
IsAccess(l, m, reg) ==
  /\ has_ocl(l, m.ocl)
  /\ IF m.mai = 1
       THEN Opnd[l.ops[1]].isreg /\ Opnd[l.ops[1]].core = reg
       ELSE l.ops[1] = reg

StepMatches(e, ins) == IsAccess(Swallow(Lex[ins]), imap[e[2] + 1], e[3])

\* The steps of spec from step n on have accesses at increasing indices
\* inside from..(hi - 1).
RECURSIVE ExistsMatch(_, _, _, _)
ExistsMatch(spec, n, from, hi) ==
  \E q \in from..(hi - 1) :
    /\ StepMatches(spec[n], lis[q + 1])
    /\ n = Len(spec) \/ ExistsMatch(spec, n + 1, q + 1, hi)

\* The bounds the first item's position p gives.
WLo(p) == IF p - 40 > 0 THEN p - 40 ELSE 0

WHi(p) == IF p + 8 < Len(lis) THEN p + 8 ELSE Len(lis)

\* What the loop of the matcher returns for chain k.
ScanOf(k) ==
  CheckScan(cl[k], lis, w_top(cl[k][1][1]), w_bot(cl[k][1][1], Len(lis)), 1, 0)

InWindow(q, p) == WLo(p) <= q /\ q < WHi(p)

ScanInWindow(scan, p) ==
  scan.ret => InWindow(scan.first, p) /\ InWindow(scan.last, p)

\* C14: a chain that has been handled has the result OK exactly when its
\* steps have accesses at increasing indices inside
\* [max(p - 40, 0), min(p + 8, n)), p the position of its first item; the
\* instructions matched for the first and the last step lie in that range.
C14_Window ==
  (pc = "check" \/ HasVerdict) =>
    \A k \in 1..ci :
      /\ (stdout[k + 1].text = "OK") =
           ExistsMatch(cl[k], 1, WLo(cl[k][1][1]), WHi(cl[k][1][1]))
      /\ ScanInWindow(ScanOf(k), cl[k][1][1])

\* In a listing of more than 48 instructions the load stands at p + 8, the
\* store inside the window, the second item three behind the first: Failure.
C14_Witness ==
  /\ HasVerdict
  /\ Len(lis) > 48
  /\ Len(cl) = 1
  /\ cl[1][1][1] = 42
  /\ cl[1][2][1] = 45
  /\ lis[51] = "LD.E R1, [R4];"
  /\ lis[3] = "ST.E [R1], R2;"
  /\ stdout[2].text = "Failure"

\* The least index in from..(hi - 1) with an access for the tuple e.
LeastMatch(e, from, hi) ==
  CHOOSE q \in from..(hi - 1) :
    /\ StepMatches(e, lis[q + 1])
    /\ \A r \in from..(q - 1) : ~StepMatches(e, lis[r + 1])

\* The index matched for the last step of spec, the steps from n on taking
\* the earliest accesses from `from` on.
RECURSIVE LastMatch(_, _, _, _)
LastMatch(spec, n, from, hi) ==
  IF n = Len(spec) THEN LeastMatch(spec[n], from, hi)
  ELSE LastMatch(spec, n + 1, LeastMatch(spec[n], from, hi) + 1, hi)

\* The instructions strictly between first and last that hold the name f.
FencesBetween(first, last, f) ==
  Cardinality({q \in Positions(lis) : first < q /\ q < last /\ HasFence(lis[q + 1], f)})

\* The counters src after a successful match of spec in lo..(hi - 1).
CountedBetween(spec, lo, hi, src) ==
  [f \in FenceNames |->
     src[f] + FencesBetween(LeastMatch(spec[1], lo, hi), LastMatch(spec, 1, lo, hi), f)]

\* C15: the step that handles a chain adds to each category's counter the
\* number of instructions strictly between the instruction matched for step 0
\* and the one matched for the last step that hold the category's name, when
\* the chain matches, and leaves the counters alone when it does not.
C15_FencesBetween ==
  [][(pc = "check" /\ ci' = ci + 1) =>
       IF ExistsMatch(cl[ci + 1], 1, WLo(cl[ci + 1][1][1]), WHi(cl[ci + 1][1][1]))
       THEN source' = CountedBetween(cl[ci + 1], WLo(cl[ci + 1][1][1]),
                                     WHi(cl[ci + 1][1][1]), source)
       ELSE source' = source]_vars

\* A membar.gl in front of the store, a membar.cta between store and load:
\* one membar.cta counted, no membar.gl.
C15_Witness ==
  /\ HasVerdict
  /\ lis = <<"IADD32I R0, R1, 0x7f3a0000;", "IADD32I R0, R1, 0x7f3a0110;",
             "MEMBAR.GL;", "ST.E [R1], R2;", "MEMBAR.CTA;", "LD.E R1, [R4];">>
  /\ source = [ZeroCounters EXCEPT !["membar.cta"] = 1]

(***************************************************************************)
(* The round trip                                                          *)
(***************************************************************************)
\* The instruction is no carrier, no access of the map and no fence.
IsFiller(ins) ==
  /\ ~isspeccand(ins)
  /\ \A t \in 1..Len(imap) : Lex[ins].op \notin Range(imap[t].ocl)
  /\ \A f \in FenceNames : ~HasFence(ins, f)

\* The instruction has no predicate, an opcode of the list of the tuple's
\* type index, and the tuple's register as its first operand.
AsksFor(e, ins) ==
  /\ Lex[ins].pre = <<>>
  /\ Lex[ins].op \in Range(imap[e[2] + 1].ocl)
  /\ Lex[ins].ops # <<>>
  /\ Opnd[Lex[ins].ops[1]].isreg
  /\ Opnd[Lex[ins].ops[1]].core = e[3]

\* lines begins with the carriers of a chain of two steps on one register,
\* types inside the map, followed by an access for the first step, the
\* instructions `between`, and an access for the second step; fillers follow.
IsRoundTrip(lines, between) ==
  /\ Len(lines) >= 4 + Len(between)
  /\ IsItemOf(lines, 0, 0)
  /\ IsItemOf(lines, 1, 1)
  /\ TypInMap(get_spec_item(lines[1]).typ)
  /\ TypInMap(get_spec_item(lines[2]).typ)
  /\ get_spec_item(lines[1]).reg = get_spec_item(lines[2]).reg
  /\ AsksFor(TupleAt(lines, 0), lines[3])
  /\ SubSeq(lines, 4, 3 + Len(between)) = between
  /\ AsksFor(TupleAt(lines, 1), lines[4 + Len(between)])
  /\ \A k \in (5 + Len(between))..Len(lines) : IsFiller(lines[k])

\* The run has given the one chain the result OK.
OneChainOK ==
  /\ HasVerdict
  /\ Len(cl) = 1
  /\ Len(cl[1]) = 2
  /\ stdout[2] = PLine("OK", 0)

\* C16 as stated: the stream of the two carriers and the two accesses makes
\* the matcher report success with no fence counted.
C16_AsStated ==
  (pc = "exit" /\ IsRoundTrip(Stream, <<>>)) => OneChainOK /\ source = ZeroCounters

\* C16: in a stream of at least 6 instructions that begins with the two
\* carriers of a chain of two steps (any type indices of the map) and the two
\* accesses they ask for, followed by instructions that are no carriers,
\* accesses or fences, the matcher reports success for the chain and no
\* fence is counted.
C16_RoundTrip ==
  (pc = "exit" /\ Len(Stream) >= MinInsts /\ IsRoundTrip(Stream, <<>>)) =>
    OneChainOK /\ source = ZeroCounters

\* The round trip of an atomic exchange and a store through the second
\* opcode of their lists.
C16_Witness ==
  /\ OneChainOK
  /\ lis = <<"IADD32I R0, R1, 0x7f3a0700;", "IADD32I R0, R1, 0x7f3a0210;",
             "ATOM.E.INC R1, [R4], R2;", "ST.E.CG.S [R1], R2;", "NOP;", "NOP;">>
  /\ source = ZeroCounters

\* The category whose name the fence instruction holds.
FenceName ==
     ("MEMBAR.CTA;" :> "membar.cta")
  @@ ("MEMBAR.GL;"  :> "membar.gl")
  @@ ("MEMBAR.SYS;" :> "membar.sys")

\* The stream without its fourth instruction.
Without4(lines) == SubSeq(lines, 1, 3) \o SubSeq(lines, 5, Len(lines))

\* The counters of the run on the stream without the inserted instruction:
\* the chain of its two carriers matched on it, and nothing counted by a run
\* that the assertion on the length ends.
Baseline(lines) ==
  IF Len(lines) - 1 < MinInsts THEN ZeroCounters
  ELSE check(<<TupleAt(lines, 0), TupleAt(lines, 1)>>, Without4(lines),
             ZeroCounters).source

\* The counters are those of the run without the insertion, with 1 added for
\* the category of the fence F.
OneHigher(F) ==
  source = [Baseline(Stream) EXCEPT ![FenceName[F]] = @ + 1]

\* C17 as stated: one fence put between the two accesses of the round trip
\* makes the counter of its category 1 higher and changes no other counter.
C17_AsStated ==
  \A F \in DOMAIN FenceName :
    (pc = "exit" /\ IsRoundTrip(Stream, <<F>>)) => OneHigher(F)

\* C17: in a round trip of at least 6 instructions, one fence put between
\* the two accesses makes the counter of its category 1 higher than in the
\* run without it and changes no other counter.
C17_InsertedFence ==
  \A F \in DOMAIN FenceName :
    (pc = "exit" /\ Len(Stream) - 1 >= MinInsts /\ IsRoundTrip(Stream, <<F>>)) =>
      OneHigher(F) /\ OneChainOK

\* A membar.sys between a shared store and a shared load.
C17_Witness ==
  /\ OneChainOK
  /\ lis = <<"IADD32I R0, R1, 0x7f3a0400;", "IADD32I R0, R1, 0x7f3a0510;",
             "STS [R1], R2;", "MEMBAR.SYS;", "LDS R1, [R4];", "NOP;", "NOP;">>
  /\ source = [ZeroCounters EXCEPT !["membar.sys"] = 1]
  /\ Baseline(lis) = ZeroCounters

(***************************************************************************)
(* Properties of the targets                                               *)
(***************************************************************************)
\* The characters of the tokens of a test name and of the fence names.
Chars ==
     ("membar.cta" :> <<"m", "e", "m", "b", "a", "r", ".", "c", "t", "a">>)
  @@ ("MEMBAR.GL"  :> <<"M", "E", "M", "B", "A", "R", ".", "G", "L">>)
  @@ ("membar.gl"  :> <<"m", "e", "m", "b", "a", "r", ".", "g", "l">>)
  @@ ("membar.sys" :> <<"m", "e", "m", "b", "a", "r", ".", "s", "y", "s">>)
  @@ ("s"          :> <<"s">>)
  @@ ("sb-"        :> <<"s", "b", "-">>)

LowerChar(c) ==
  CASE c = "M" -> "m" [] c = "E" -> "e" [] c = "B" -> "b" [] c = "A" -> "a"
    [] c = "R" -> "r" [] c = "G" -> "g" [] c = "L" -> "l" [] OTHER -> c

\* The characters of the name, lower-cased.
RECURSIVE LowerText(_)
LowerText(name) ==
  IF name = <<>> THEN <<>>
  ELSE [k \in 1..Len(Chars[Head(name)]) |-> LowerChar(Chars[Head(name)][k])]
         \o LowerText(Tail(name))

\* The number of occurrences of pat in text from index pos on, counted from
\* the left without overlap.
RECURSIVE CountSub(_, _, _)
CountSub(text, pat, pos) ==
  IF pos + Len(pat) - 1 > Len(text) THEN 0
  ELSE IF SubSeq(text, pos, pos + Len(pat) - 1) = pat
    THEN 1 + CountSub(text, pat, pos + Len(pat))
  ELSE CountSub(text, pat, pos + 1)

\* 2*count(name+"s") + (count(name) - (2*count(name+"s"))/2) for the counts
\* c of the name and cs of the name followed by "s".
Estimate(c, cs) == 2 * cs + (c - (2 * cs) \div 2)

EstimateOf(text, f) ==
  Estimate(CountSub(text, Chars[f], 1), CountSub(text, Chars[f] \o <<"s">>, 1))

TargetsOf(text) == [f \in FenceNames |-> EstimateOf(text, f)]

\* C18: once computed, the target of every fence category is
\* 2*count(name+"s") + (count(name) - (2*count(name+"s"))/2), the counts taken
\* on the lower-cased characters of the test name from the left without
\* overlap; before, it is 0.
C18_Targets ==
  target = IF pc = "main" THEN ZeroCounters ELSE TargetsOf(LowerText(testname))

\* The name sb-membar.ctass: target 2 for membar.cta, 0 for the others.
C18_Witness ==
  /\ pc = "exit"
  /\ testname = <<"sb-", "membar.cta", "s", "s">>
  /\ target = [ZeroCounters EXCEPT !["membar.cta"] = 2]

\* The orders in which the categories can be taken.
Orders == Arrangements(FenceNames, Len(fl))

\* C19 as stated: the targets computed, there is a test name on which taking
\* the categories in another order gives another target for some category.
C19_AsStated ==
  pc # "main" =>
    \E nm \in TestNames, order \in Orders :
      TargetLoops(order, nm, ZeroCounters) # TargetLoops(fl, nm, ZeroCounters)

\* C19: the targets do not depend on the order of the categories: what is
\* taken off a category's target is half of what was added to that same
\* category, so the two loops run in any order give the targets of the run.
C19_OrderFree ==
  pc # "main" =>
    \A order \in Orders : TargetLoops(order, testname, ZeroCounters) = target

\* A name with fences of two categories, one of them followed by "s".
C19_Witness ==
  /\ pc = "exit"
  /\ testname = <<"membar.cta", "s", "MEMBAR.GL">>
  /\ target = [ZeroCounters EXCEPT !["membar.cta"] = 2, !["membar.gl"] = 1]

KeptPlaces == {k \in 1..Len(out) : out[k].addr # "" /\ out[k].text # ""}

\* The m-th of the kept places, in the order of the listing.
KeptPlace(m) ==
  CHOOSE k \in KeptPlaces : Cardinality({h \in KeptPlaces : h <= k}) = m

\* C21: the step that filters and cleans the listing leaves the texts of the
\* kept lines in the order of the listing; with fewer than 6 of them it ends
\* the run with a fatal error, no chain built and nothing printed; with 6 or
\* more it goes on to the clustering without an error.
C21_MinInsts ==
  [][pc = "check_spec" =>
       /\ Len(lis') = Cardinality(KeptPlaces)
       /\ \A m \in 1..Len(lis') : lis'[m] = out[KeptPlace(m)].text
       /\ IF Cardinality(KeptPlaces) < MinInsts
            THEN /\ pc' = "exit"
                 /\ status' = EXIT_ERR
                 /\ err' = "AssertionError"
                 /\ cl' = <<>>
                 /\ stdout' = <<>>
            ELSE /\ pc' = "seed"
                 /\ status' = -1
                 /\ err' = ""]_vars

\* A listing of more than 5 lines of which 5 are instructions has ended the
\* run.
C21_Witness ==
  /\ pc = "exit"
  /\ err = "AssertionError"
  /\ Len(lis) = MinInsts - 1
  /\ Len(out) > Len(lis)
  /\ cl = <<>>

(***************************************************************************)
(* The chains are matched one by one, each on its own                      *)
(***************************************************************************)
\* Chain k has accesses for all its steps inside its window.
ChainMatches(k) ==
  ExistsMatch(cl[k], 1, WLo(cl[k][1][1]), WHi(cl[k][1][1]))

\* The indices matched for the first and the last step of chain k.
FirstOf(k) == LeastMatch(cl[k][1], WLo(cl[k][1][1]), WHi(cl[k][1][1]))

LastOf(k) == LastMatch(cl[k], 1, WLo(cl[k][1][1]), WHi(cl[k][1][1]))

\* The pairs of a matching chain and an instruction strictly between its
\* first and last match that holds the name f.
FencePairs(f) ==
  { pr \in (1..Len(cl)) \X Positions(lis) :
      /\ ChainMatches(pr[1])
      /\ FirstOf(pr[1]) < pr[2]
      /\ pr[2] < LastOf(pr[1])
      /\ HasFence(lis[pr[2] + 1], f) }

\* The counters after the matcher has run on the chains in the order `order`
\* (a sequence of chain indices), from its n-th element on.
RECURSIVE CountedInOrder(_, _, _)
CountedInOrder(order, n, src) ==
  IF n > Len(order) THEN src
  ELSE CountedInOrder(order, n + 1, check(cl[order[n]], lis, src).source)

\* What the matcher adds to the counters src for chain k.
Added(k, src) == [f \in FenceNames |-> check(cl[k], lis, src).source[f] - src[f]]

\* C22: at the verdict each category's counter is the number of pairs of a
\* matching chain and a fence of the category between the chain's first and
\* last match (a fence inside k matching chains counts k times); a chain's
\* result and what it adds are the same whatever was counted before; running
\* the matcher over the chains in any other order gives the same counters.
C22_PerChain ==
  HasVerdict =>
    /\ \A f \in FenceNames : source[f] = Cardinality(FencePairs(f))
    /\ \A k \in 1..Len(cl) :
         /\ Added(k, source) = Added(k, ZeroCounters)
         /\ check(cl[k], lis, source).ret = (stdout[k + 1].text = "OK")
    /\ \A order \in Arrangements(1..Len(cl), Len(cl)) :
         CountedInOrder(order, 1, ZeroCounters) = source

\* Two chains match on the same store and the same load, and the fence
\* between the two accesses has been counted twice.
C22_Witness ==
  /\ HasVerdict
  /\ Len(cl) = 2
  /\ ChainMatches(1) /\ ChainMatches(2)
  /\ FirstOf(1) = FirstOf(2)
  /\ LastOf(1) = LastOf(2)
  /\ source["membar.cta"] = 2
  /\ Cardinality({q \in Positions(lis) : HasFence(lis[q + 1], "membar.cta")}) = 1

(***************************************************************************)
(* A chain that does not match                                             *)
(***************************************************************************)
\* The first n steps of chain k have accesses at increasing indices inside
\* the chain's window.
PartMatches(k, n) ==
  ExistsMatch(SubSeq(cl[k], 1, n), 1, WLo(cl[k][1][1]), WHi(cl[k][1][1]))

\* C23: the step that handles a chain whose steps do not all have accesses at
\* increasing indices inside its window prints Failure for it, leaves every
\* counter as it was, raises nothing and goes on; a step that changes a
\* counter is one that handles a chain and prints OK for it.
C23_FailureKeeps ==
  [][/\ (pc = "check" /\ ci < Len(cl) /\ ~ChainMatches(ci + 1)) =>
          /\ stdout' = Append(stdout, PLine("Failure", ci))
          /\ source' = source
          /\ ci' = ci + 1
          /\ pc' = "check"
          /\ status' = -1
          /\ err' = ""
     /\ source' # source =>
          /\ pc = "check"
          /\ ci < Len(cl)
          /\ stdout' = Append(stdout, PLine("OK", ci))]_vars

\* The first chain has two steps; its store is there with a fence behind it,
\* its load is not: Failure, nothing counted.
C23_Witness ==
  /\ pc = "check"
  /\ ci >= 1
  /\ Len(cl[1]) = 2
  /\ PartMatches(1, 1)
  /\ ~ChainMatches(1)
  /\ \E q \in Positions(lis) :
       q > FirstOf(1) /\ q < WHi(cl[1][1][1]) /\ HasFence(lis[q + 1], "membar.cta")
  /\ stdout[2] = PLine("Failure", 0)
  /\ source = ZeroCounters

(***************************************************************************)
(* What the matcher leaves alone                                           *)
(***************************************************************************)
\* C24: the step that handles a chain leaves the chains, the instructions,
\* the listing and the targets as they were; no step of a run lowers a
\* counter of the fences counted, and a step that is not the handling of a
\* chain leaves those counters as they were.
C24_Frame ==
  [][/\ (pc = "check" /\ ci < Len(cl)) =>
          /\ cl' = cl
          /\ lis' = lis
          /\ out' = out
          /\ target' = target
     /\ \A f \in FenceNames : source'[f] >= source[f]
     /\ ~(pc = "check" /\ ci < Len(cl)) => source' = source]_vars

\* Both chains have been handled, the second one of two steps with its fence
\* counted, and the targets are those of the name.
C24_Witness ==
  /\ pc = "check"
  /\ ci = 2
  /\ Len(cl) = 2
  /\ Len(cl[2]) = 2
  /\ stdout[3] = PLine("OK", 1)
  /\ source["membar.cta"] = 1
  /\ target["membar.cta"] = 1

(***************************************************************************)
(* The address operand of a memory access                                  *)
(***************************************************************************)
\* The operand fields of the vocabulary that stand in brackets.
Bracketed == {"[R1]", "[R4]", "[R1+0x4]"}

\* A bracketed simple register reference.
SimpleRef(op) == op \in Bracketed /\ Opnd[op].isreg

\* An access for the tuple e in which the operand of a step flagged as a
\* memory access has to be a bracketed simple register reference.
BracketedStep(e, ins) ==
  /\ StepMatches(e, ins)
  /\ imap[e[2] + 1].mai = 1 =>
       SimpleRef(Swallow(Lex[ins]).ops[imap[e[2] + 1].lrp + 1])

\* The steps of spec from step n on have such accesses at increasing indices
\* inside from..(hi - 1).
RECURSIVE BracketedMatch(_, _, _, _)
BracketedMatch(spec, n, from, hi) ==
  \E q \in from..(hi - 1) :
    /\ BracketedStep(spec[n], lis[q + 1])
    /\ n = Len(spec) \/ BracketedMatch(spec, n + 1, q + 1, hi)

\* C25: a chain that has been handled has the result OK exactly when its
\* steps have accesses at increasing indices inside its window, an
\* instruction whose operand is not a bracketed simple register reference
\* being no access for a step flagged as a memory access.
C25_AsStated ==
  (pc = "check" \/ HasVerdict) =>
    \A k \in 1..ci :
      (stdout[k + 1].text = "OK") =
        BracketedMatch(cl[k], 1, WLo(cl[k][1][1]), WHi(cl[k][1][1]))

(***************************************************************************)
(* The predicate in front of an instruction                                *)
(***************************************************************************)
\* An access for the tuple e when one predicate token at the start of the
\* line, and no other, is taken off before the opcode is looked at.
LeadingStep(e, ins) == IsAccess(SwallowLeading(Lex[ins]), imap[e[2] + 1], e[3])

RECURSIVE LeadingMatch(_, _, _, _)
LeadingMatch(spec, n, from, hi) ==
  \E q \in from..(hi - 1) :
    /\ LeadingStep(spec[n], lis[q + 1])
    /\ n = Len(spec) \/ LeadingMatch(spec, n + 1, q + 1, hi)

\* C26: a chain that has been handled has the result OK exactly when its
\* steps have accesses at increasing indices inside its window, an
\* instruction being looked at without its one leading predicate token, with
\* a second predicate token and with a predicate token that does not stand at
\* the start left in place.
C26_AsStated ==
  (pc = "check" \/ HasVerdict) =>
    \A k \in 1..ci :
      (stdout[k + 1].text = "OK") =
        LeadingMatch(cl[k], 1, WLo(cl[k][1][1]), WHi(cl[k][1][1]))

(***************************************************************************)
(* The matcher and the increasing choices of accesses                      *)
(***************************************************************************)
\* The ways to give the steps of chain k from the n-th on accesses at
\* strictly increasing indices inside from..(hi - 1).
RECURSIVE ChoicesFrom(_, _, _, _)
ChoicesFrom(k, n, from, hi) ==
  IF n > Len(cl[k]) THEN {<<>>}
  ELSE UNION { { <<q>> \o a : a \in ChoicesFrom(k, n + 1, q + 1, hi) } :
               q \in { q \in from..(hi - 1) : StepMatches(cl[k][n], lis[q + 1]) } }

\* The ways to give every step of chain k an access inside the chain's
\* window, at strictly increasing indices.
Choices(k) == ChoicesFrom(k, 1, WLo(cl[k][1][1]), WHi(cl[k][1][1]))

\* The indices the matcher takes for the steps of chain k.
MatchesOf(k) ==
  ScanMatches(cl[k], lis, w_top(cl[k][1][1]), w_bot(cl[k][1][1], Len(lis)), 1, <<>>)

\* The sequence m gives each of its steps the first access behind the one
\* of the step before it (for the first step, the first one of the window).
Earliest(k, m) ==
  \A n \in 1..Len(m) :
    /\ StepMatches(cl[k][n], lis[m[n] + 1])
    /\ m[n] < WHi(cl[k][1][1])
    /\ \A q \in (IF n = 1 THEN WLo(cl[k][1][1]) ELSE m[n - 1] + 1)..(m[n] - 1) :
         ~StepMatches(cl[k][n], lis[q + 1])

\* C27: a chain that has been handled has the result OK exactly when there
\* is a way to give its steps accesses at strictly increasing indices inside
\* its window; the indices the matcher takes are the earliest ones, step by
\* step, so they increase strictly and no instruction is taken for two steps;
\* when the chain matches they are a choice that is least at every step, and
\* its first and last are the ends between which the fences are counted; when
\* it does not match they cover fewer steps than the chain has.
C27_EarliestChoice ==
  (pc = "check" \/ HasVerdict) =>
    \A k \in 1..ci :
      /\ (stdout[k + 1].text = "OK") = (Choices(k) # {})
      /\ Earliest(k, MatchesOf(k))
      /\ \A n \in 1..(Len(MatchesOf(k)) - 1) : MatchesOf(k)[n] < MatchesOf(k)[n + 1]
      /\ IF Choices(k) # {}
           THEN /\ MatchesOf(k) \in Choices(k)
                /\ \A a \in Choices(k) : \A n \in 1..Len(cl[k]) : MatchesOf(k)[n] <= a[n]
                /\ ScanOf(k).first = MatchesOf(k)[1]
                /\ ScanOf(k).last = MatchesOf(k)[Len(cl[k])]
           ELSE Len(MatchesOf(k)) < Len(cl[k])

\* A chain of three steps matches although a later choice exists: the store
\* of its first step stands twice in front of the load.
C27_Witness ==
  /\ HasVerdict
  /\ Len(cl) = 1
  /\ Len(cl[1]) = 3
  /\ stdout[2] = PLine("OK", 0)
  /\ Cardinality(Choices(1)) = 2
  /\ MatchesOf(1) = <<3, 5, 6>>

(***************************************************************************)
(* The chains and the items of the stream                                  *)
(***************************************************************************)
\* The places in the chains: chain k, index n (both from 1).
Slots == UNION {{<<k, n>> : n \in 1..Len(cl[k])} : k \in 1..Len(cl)}

\* The places that hold an entry for position p.
SlotsOf(p) == {s \in Slots : cl[s[1]][s[2]][1] = p}

\* The positions of the specification items of lines, of any order.
Items(lines) == {p \in Positions(lines) : IsItem(lines, p)}

\* C28: when clustering has returned, there are as many chains as items of
\* order 0, every specification item of the stream has its entry at exactly
\* one place of exactly one chain, and every entry of a chain is the tuple
\* of a specification item of the stream.
C28_Partition ==
  (pc = "check" \/ HasVerdict) =>
    /\ Len(cl) = Cardinality(Ord0(lis))
    /\ \A p \in Items(lis) : Cardinality(SlotsOf(p)) = 1
    /\ \A s \in Slots :
         /\ cl[s[1]][s[2]][1] \in Items(lis)
         /\ cl[s[1]][s[2]] = TupleAt(lis, cl[s[1]][s[2]][1])
    /\ Cardinality(Slots) = Cardinality(Items(lis))

\* Six items in three chains of different lengths.
C28_Witness ==
  /\ pc = "check"
  /\ Len(cl) = 3
  /\ Cardinality(Items(lis)) = 6
  /\ \E k \in 1..3 : Len(cl[k]) = 3
  /\ \E k \in 1..3 : Len(cl[k]) = 1

(***************************************************************************)
(* The numbers of items of each order                                      *)
(***************************************************************************)
\* The order of the item at each place of lines, -1 where no item stands.
OrdsOf(lines) ==
  [k \in 1..Len(lines) |->
     IF get_spec_item(lines[k]).kind = "item" THEN get_spec_item(lines[k]).ord ELSE -1]

\* c_o: the number of specification items of order o, from their orders.
Count(ords, o) == Cardinality({k \in 1..Len(ords) : ords[k] = o})

\* c_0 >= 1 and c_(o+1) <= c_o for every order o.
Monotone(ords) ==
  /\ Count(ords, 0) >= 1
  /\ \A o \in 0..(MaxOrd - 1) : Count(ords, o + 1) <= Count(ords, o)

\* Every item's type index is inside the instruction map.
TypesValid(lines) ==
  \A p \in Items(lines) : TypInMap(get_spec_item(lines[p + 1]).typ)

\* cluster_specs has returned its chains.
Returned == pc = "check" \/ HasVerdict

\* For every order o exactly c_o chains are longer than o.
LengthsByCount(ords) ==
  \A o \in 0..MaxOrd :
    Cardinality({k \in 1..Len(cl) : Len(cl[k]) > o}) = Count(ords, o)

\* Clustering returns exactly when the numbers of items do not grow with the
\* order, and then c_o chains are longer than o.
ReturnsByCount(ords) ==
  /\ Returned = Monotone(ords)
  /\ Returned => LengthsByCount(ords)

\* C29 as stated: with at least 6 instructions and every item's type index
\* inside the map, clustering returns exactly when c_0 >= 1 and the numbers
\* of items do not grow with the order, and then c_o chains are longer than o.
C29_AsStated ==
  (pc \in {"check", "exit"} /\ Len(lis) >= MinInsts /\ TypesValid(lis)) =>
    ReturnsByCount(OrdsOf(lis))

\* C29: with at least 6 instructions, every carrier instruction decoding
\* (three operand fields, a hexadecimal immediate) and every item's type
\* index inside the map, clustering returns exactly when c_0 >= 1 and the
\* numbers of items do not grow with the order, and then c_o chains are
\* longer than o, for every order o.
C29_Counts ==
  (pc \in {"check", "exit"} /\ Len(lis) >= MinInsts /\ WellFormed(lis)) =>
    ReturnsByCount(OrdsOf(lis))

\* Two items of order 0, two of order 1 and one of order 2 have given a
\* chain of three and a chain of two.
C29_Witness ==
  /\ pc = "check"
  /\ WellFormed(lis)
  /\ Count(OrdsOf(lis), 0) = 2
  /\ Count(OrdsOf(lis), 1) = 2
  /\ Count(OrdsOf(lis), 2) = 1
  /\ Len(cl) = 2
  /\ {Len(cl[1]), Len(cl[2])} = {2, 3}

(***************************************************************************)
(* The rounds of the clustering come to an end                             *)
(***************************************************************************)
\* What is left of the rounds: the rounds that can still follow, each with a
\* whole pass over the stream, and the rest of the pass of this round.
Left(round, at, n) == (MaxOrd + 1 - round) * (n + 1) + (n - at)

\* The stream has an item of order o.
HasOrder(o) == \E p \in Positions(lis) : IsItemOf(lis, p, o)

\* C30: every step leaves the number of the round between 1 and 16 while the
\* rounds run, and no item with its entry at two places of the chains; every
\* step of the rounds that is followed by another one lowers what is left of
\* the rounds, which is never below 0; the rounds end with a fatal error or
\* behind the first round that found no item of its order, at the latest the
\* 16th.
C30_RoundsEnd ==
  [][/\ pc' = "round" => i' >= 1 /\ i' <= MaxOrd + 1 /\ j' <= Len(lis')
     /\ \A p \in Positions(lis') : Cardinality(SlotsOf(p)') <= 1
     /\ pc = "round" =>
          IF pc' = "round"
            THEN /\ Left(i', j', Len(lis)) < Left(i, j, Len(lis))
                 /\ Left(i', j', Len(lis)) >= 0
                 /\ i' # i => HasOrder(i)
          ELSE \/ pc' = "exit" /\ status' = EXIT_ERR
               \/ /\ pc' = "gap"
                  /\ ~HasOrder(i)
                  /\ \A o \in 1..(i - 1) : HasOrder(o)
                  /\ i' = i + 1]_vars

\* The 16th round has ended the rounds: the chain has an item of every order
\* from 0 to 15.
C30_Witness ==
  /\ pc = "gap"
  /\ i = MaxOrd + 2
  /\ \E k \in 1..Len(cl) : Len(cl[k]) = MaxOrd + 1

====
